---- MODULE Spec2Model ----
(***************************************************************************)
(* Model of jumpboot's QueueProcess (pyprocqueue.go) over its              *)
(* MsgpackTransport (ipcmessagepack.go): request IDs, the response map,    *)
(* the receive loops, command dispatch to handlers, Close, and the         *)
(* outbound wire.                                                          *)
(***************************************************************************)
EXTENDS Integers, Sequences, FiniteSets, TLC

\* ---------------------------------------------------------------- bounds
\* What the environment does in one run of Spec: SendCommand invocations by
\* callers, frames written by the guest, the guest's exit.
MaxEvents == 4
\* What the environment does in one run of SpecClose: Close invocations,
\* SendCommand invocations by callers, frames written by the guest.
MaxCloseEvents == 3
\* What the environment does in one run of SpecCmd: frames written by the guest,
\* RegisterHandler and SetDefaultHandler invocations, SendCommand invocations.
MaxCmdEvents == 4
\* SendCommand invocations by callers in one run.
MaxCalls == 2
\* RegisterHandler and SetDefaultHandler invocations in one run.
MaxRegistrations == 2
\* Requests the guest makes in one run.
MaxRequests == 2
\* Largest timeoutSeconds a caller passes (0 means wait without limit).
MaxTimeout == 1

\* NewQueueProcess starts messageLoop twice: once inside Start() and once
\* with its own go statement.
NumLoops == 2
\* make(chan map[string]interface{}, 1)
ChanCap == 1

Loops == 1..NumLoops
Commands == {"log", "sum"}
Handlers == {"h1", "h2"}
NoHandler == "nil"

\* ------------------------------------------------------------ wire values
\* A request ID is rendered "<prefix><decimal>": kept as <<prefix, n>>.
ReqPrefix == "req-"
PyPrefix == "py-"
NoID == <<"", 0>>
NoCmd == ""
NoVal == <<"", "">>

\* fmt.Sprintf("req-%d", n)
FormatRequestID(n) == <<ReqPrefix, n>>

\* strings.HasPrefix(requestID, "py-")
HasPyPrefix(id) == id[1] = PyPrefix

\* A decoded frame: map[string]interface{} with the keys the code reads.
\* body is which of "result"/"error" the map carries ("none": neither).
Message(id, cmd, body, val) ==
    [request_id |-> id, command |-> cmd, body |-> body, val |-> val]

NoMsg == Message(NoID, NoCmd, "none", NoVal)

\* The request map SendCommand builds.
Request(cmd, id) == Message(id, cmd, "none", NoVal)

VARIABLES
    nextID,           \* jq.nextID
    calls,            \* SendCommand invocations, in the order the ID lock was taken
    responseMap,      \* jq.responseMap: request ID -> index of the call owning the channel
    running,          \* jq.running
    mutex,            \* jq.mutex: Free or its holder
    closes,           \* Close invocations
    lpc,              \* messageLoop: position of each loop
    lhdr,             \* messageLoop: the chunk Receive read as the length header
    lmsg,             \* messageLoop: the frame Receive returned (guest frame number)
    pipeIn,           \* guest -> host data pipe: chunks not yet read
    inEOF,            \* the guest has exited: its pipe ends are closed
    gframes,          \* frames the guest has written, in order
    fate,             \* what the receive loops did with each guest frame
    pipeOut,          \* host -> guest data pipe: chunks written so far
    sendOrder,        \* frames in the order their Send began
    commandHandlers,  \* jq.commandHandlers
    defaultHandler,   \* jq.defaultHandler
    regLog,           \* RegisterHandler calls so far, in order
    workers,          \* processCommand goroutines, in the order they were spawned
    invocations,      \* handler invocations so far, in order
    events            \* what the environment has done so far (a count)

callVars == <<nextID, calls, responseMap>>
loopVars == <<lpc, lhdr, lmsg>>
inVars == <<pipeIn, gframes, fate>>
outVars == <<pipeOut, sendOrder>>
handlerVars == <<commandHandlers, defaultHandler, regLog>>
workerVars == <<workers, invocations>>

\* The child process behind a PythonProcess (Cmd) and the Terminate calls on it.
VARIABLES
    child,            \* Cmd.Process: "running", "exited" (not yet waited on), "reaped"
    exitStatus,       \* how the child ended ("none" while it runs)
    signals,          \* signals delivered to the child, in order
    terms             \* Terminate invocations, in the order they began

procVars == <<child, exitStatus, signals, terms>>

queueVars == <<callVars, running, mutex, closes, loopVars, inVars, inEOF, outVars,
               handlerVars, workerVars>>

\* A REPLPythonProcess, its pipes and its guest.
VARIABLES
    rppM,             \* rpp.m: 0 when free, else the call holding it
    closed,           \* rpp.closed
    combinedOutput,   \* rpp.combinedOutput
    rcalls,           \* Execute, ExecuteWithTimeout and Close invocations, in call order
    rPipeOut,         \* PipeOut, host -> guest: submissions written so far
    gpos,             \* how many of them the guest has read
    rPipeIn,          \* PipeIn, guest -> host: bytes written and not yet read
    statusIn,         \* StatusIn: records the guest wrote, not yet scanned
    StatusChan,       \* pp.StatusChan
    ExceptionChan     \* pp.ExceptionChan

replVars == <<rppM, closed, combinedOutput, rcalls, rPipeOut, gpos, rPipeIn,
              statusIn, StatusChan, ExceptionChan>>

\* One direction of a MsgpackTransport, at the level of bytes.
VARIABLES
    wire,             \* bytes written by Send and not yet read by Receive
    sent,             \* payloads passed to Send, in order
    sendpc,           \* Send: "idle", or "data" once the length is written
    received,         \* payloads Receive has returned, in order, with the path taken
    recvlen           \* Receive: <<>>, or <<length>> once the length is read

frameVars == <<wire, sent, sendpc, received, recvlen>>

\* The handlers NewQueueProcess binds to the methods of a service struct.
VARIABLES
    svcCalls,         \* guest requests for bound methods, with what became of each
    panicked          \* a goroutine of the host has panicked: the host program is gone

svcVars == <<svcCalls, panicked>>

\* The functions of the program that only compute a value from their
\* arguments.
VARIABLES
    applied           \* the applications made so far: function, argument, what it returned

\* A BufferPool and the goroutines that use it.
VARIABLES
    pool,             \* bp.pool: the buffers in the channel, oldest first
    bpc,              \* per goroutine: "idle", or "get" / "put" inside the call
    held,             \* per goroutine: the slice it holds
    nextBuf,          \* the number of the next array to be allocated
    bplog             \* the Gets and Puts that have returned, in order

poolVars == <<pool, bpc, held, nextBuf, bplog>>

\* The pipes NewPythonProcessFromProgram creates, the child it starts and the
\* goroutines it leaves behind.
VARIABLES
    fdOpen,           \* per pipe end: which of host and child hold it open
    cmdState,         \* the child of cmd.Start(): "started" or "exited"
    feeders,          \* the goroutines writing the bootstrap script and the program
    dataPipe,         \* how many chunks the child has written to the data pipe
    dataLoop,         \* the host's reader of PipeIn: "reading" or "eof", chunks read
    statusPipe,       \* lines the child wrote to the status pipe, not yet scanned
    spc,              \* the status goroutine: "scan", or why it ended
    schan,            \* schan: status events sent and not yet taken
    echan,            \* echan: exceptions sent and not yet taken
    slog              \* the lines scanned so far, with what was done with each

launchVars == <<fdOpen, cmdState, feeders, dataPipe, dataLoop, statusPipe, spc,
                schan, echan, slog>>

vars == <<queueVars, events, procVars, replVars, frameVars, svcVars, applied, poolVars,
          launchVars>>

\* What the queue's actions leave alone, and what the child's and Terminate's do.
notQueue == <<procVars, replVars, frameVars, svcVars, applied, poolVars, launchVars>>
notFrame == <<queueVars, procVars, replVars, svcVars, applied, poolVars, launchVars>>
notSvc == <<queueVars, procVars, replVars, frameVars, applied, poolVars, launchVars>>
notApplied == <<queueVars, procVars, replVars, frameVars, svcVars, poolVars, launchVars>>
notPool == <<queueVars, procVars, replVars, frameVars, svcVars, applied, launchVars>>
\* What neither the child, Terminate nor the REPL touch.
notChild == <<queueVars, frameVars, svcVars, applied, poolVars, launchVars>>
notProc == <<notChild, events, replVars>>
notLaunch == <<queueVars, procVars, replVars, frameVars, svcVars, applied, poolVars>>

\* ------------------------------------------------------------- helpers
\* The ends of the five pipes: those passed to the child in cmd.ExtraFiles
\* (pipein_writer_primary, pipeout_reader_primary, status_writer_primary,
\* reader_bootstrap, reader_program) and the host's own.
ChildEnds == {"pipein_w", "pipeout_r", "status_w", "bootstrap_r", "program_r"}
HostEnds == {"pipein_r", "pipeout_w", "status_r", "bootstrap_w", "program_w"}
PipeEnds == ChildEnds \cup HostEnds

\* Whether the host closes its copy of a child's end between cmd.Start() and
\* the return of NewPythonProcessFromProgram: it closes none.
HostCloses(e) == {}

\* NewBufferPool(8192, 10): the size of a pooled buffer.
PoolBufSize == 8192

\* The buffers a BufferPool is created with.
PoolCount == 1

\* The goroutines that use the pool.
Goroutines == {1, 2}

\* A byte slice: the array it points into, its length and its capacity.
Buffer(id, len, cap) == [id |-> id, len |-> len, cap |-> cap]
NoBuffer == Buffer(0, 0, 0)

Free == <<"free", 0>>
CallHolder(i) == <<"call", i>>
LoopHolder(l) == <<"loop", l>>
WorkerHolder(w) == <<"worker", w>>

Hdr(k) == [kind |-> "hdr", ref |-> k]
Body(k) == [kind |-> "body", ref |-> k]
NoChunk == [kind |-> "none", ref |-> 0]

Result(kind, msg) == [kind |-> kind, msg |-> msg]
NoResult == Result("none", NoMsg)

MapPut(m, k, v) == [x \in DOMAIN m \cup {k} |-> IF x = k THEN v ELSE m[x]]
MapDelete(m, k) == [x \in DOMAIN m \ {k} |-> m[x]]

\* -------------------------------------------------------- transport.Send
\* A write to a pipe whose reader is gone fails, and Send returns the error.
WriteFails == inEOF

\* ------------------------------------------------------------- jq.mutex
\* jq.mutex.Lock() before transport.Send; the mutex is kept over both writes of
\* Send, and given back at once when the first write fails.
LockForSend(holder) == mutex = Free /\ mutex' = IF WriteFails THEN Free ELSE holder

\* jq.mutex.Unlock() after transport.Send
Unlock(holder) == mutex' = IF mutex = holder THEN Free ELSE mutex

\* ------------------------------------------------------- generateRequestID
\* generateRequestID without jq.nextID++.
generateRequestID_NoIncrement == [id |-> FormatRequestID(nextID), next |-> nextID]

\* id := fmt.Sprintf("req-%d", jq.nextID); jq.nextID++ under idMutex.
generateRequestID == [id |-> FormatRequestID(nextID), next |-> nextID + 1]

\* ------------------------------------------------------------- SendCommand
\* The channel is closed for a caller: Close has run, or every receive loop
\* has ended.
ChannelClosed == ~running \/ \A l \in Loops : lpc[l] = "stopped"

\* A call that registers a channel whether or not it waits.
NewCall_AlwaysRegister(id, cmd, wait, tmo) ==
    [requestID |-> id, command |-> cmd, wait |-> wait, tmo |-> tmo,
     pc |-> "register",
     chan |-> <<>>, timer |-> 0, sidx |-> 0, result |-> NoResult,
     late |-> ChannelClosed, framesAtReturn |-> 0]

NewCall(id, cmd, wait, tmo) ==
    [requestID |-> id, command |-> cmd, wait |-> wait, tmo |-> tmo,
     pc |-> IF wait THEN "register" ELSE "send",
     chan |-> <<>>, timer |-> 0, sidx |-> 0, result |-> NoResult,
     late |-> ChannelClosed, framesAtReturn |-> 0]

\* SendCommand entry: the request ID is generated and the request map built.
SendCommand(cmd, wait, tmo) ==
    /\ Cardinality({i \in DOMAIN calls : calls[i].command = cmd}) < MaxCalls
    /\ LET g == generateRequestID IN
        /\ nextID' = g.next
        /\ calls' = Append(calls, NewCall(g.id, cmd, wait, tmo))
    /\ UNCHANGED <<responseMap, running, mutex, closes, loopVars, inVars, inEOF,
                   outVars, handlerVars, workerVars>>

\* jq.responseMap[requestID] = responseChan, under jq.mutex.
InsertPending(i) ==
    /\ calls[i].pc = "register"
    /\ mutex = Free
    /\ responseMap' = MapPut(responseMap, calls[i].requestID, i)
    /\ calls' = [calls EXCEPT ![i].pc = "send"]
    /\ UNCHANGED <<nextID, running, mutex, closes, loopVars, inVars, inEOF,
                   outVars, handlerVars, workerVars, events, notQueue>>

\* sendMessage: jq.mutex.Lock(); transport.Send writes the 4-byte length.
\* If the write fails sendMessage unlocks and SendCommand returns the error.
SendHeader(i) ==
    /\ calls[i].pc = "send"
    /\ LockForSend(CallHolder(i))
    /\ sendOrder' = Append(sendOrder, Request(calls[i].command, calls[i].requestID))
    /\ IF WriteFails
         THEN /\ calls' = [calls EXCEPT ![i].pc = "done",
                                        ![i].sidx = Len(sendOrder) + 1,
                                        ![i].result = Result("senderr", NoMsg)]
              /\ UNCHANGED pipeOut
         ELSE /\ pipeOut' = Append(pipeOut, Hdr(Len(sendOrder) + 1))
              /\ calls' = [calls EXCEPT ![i].pc = "payload",
                                        ![i].sidx = Len(sendOrder) + 1]
    /\ UNCHANGED <<nextID, responseMap, running, closes, loopVars, inVars, inEOF,
                   handlerVars, workerVars, events, notQueue>>

\* transport.Send writes the payload; jq.mutex.Unlock(). Then SendCommand either
\* returns (nil, nil) or reaches its wait, where time.After starts the timer.
SendPayload(i) ==
    /\ calls[i].pc = "payload"
    /\ Unlock(CallHolder(i))
    /\ IF WriteFails
         THEN /\ calls' = [calls EXCEPT ![i].pc = "done",
                                        ![i].result = Result("senderr", NoMsg)]
              /\ UNCHANGED pipeOut
         ELSE /\ pipeOut' = Append(pipeOut, Body(calls[i].sidx))
              /\ calls' = IF calls[i].wait
                            THEN [calls EXCEPT ![i].pc = "wait",
                                               ![i].timer = calls[i].tmo]
                            ELSE [calls EXCEPT ![i].pc = "done",
                                               ![i].result = Result("nil", NoMsg)]
    /\ UNCHANGED <<nextID, responseMap, running, closes, loopVars, inVars, inEOF,
                   sendOrder, handlerVars, workerVars, events, notQueue>>

\* response := <-responseChan (the plain receive and the select case).
ReceiveResponse(i) ==
    /\ calls[i].pc = "wait"
    /\ calls[i].chan # <<>>
    /\ calls' = [calls EXCEPT ![i].pc = "done",
                              ![i].result = Result("response", Head(calls[i].chan)),
                              ![i].chan = Tail(calls[i].chan)]
    /\ UNCHANGED <<nextID, responseMap, running, mutex, closes, loopVars, inVars,
                   inEOF, outVars, handlerVars, workerVars, events, notQueue>>

\* One second passes for every caller whose timer is running.
Tick ==
    /\ \E i \in DOMAIN calls : calls[i].pc = "wait" /\ calls[i].timer > 0
    /\ calls' = [i \in DOMAIN calls |->
                   IF calls[i].pc = "wait" /\ calls[i].timer > 0
                     THEN [calls[i] EXCEPT !.timer = calls[i].timer - 1]
                     ELSE calls[i]]
    /\ UNCHANGED <<nextID, responseMap, running, mutex, closes, loopVars, inVars,
                   inEOF, outVars, handlerVars, workerVars, events, notQueue>>

\* The select with time.After taken for every timeoutSeconds.
TimerArmed_Always(timeoutSeconds) == TRUE

\* if timeoutSeconds <= 0 { plain receive } else { select with time.After }
TimerArmed(timeoutSeconds) == timeoutSeconds > 0

\* The timeout branch without its delete.
RemovePending_Keep(id) == responseMap

\* delete(jq.responseMap, requestID)
RemovePending(id) == MapDelete(responseMap, id)

\* case <-time.After(timeoutSeconds * time.Second), which select can take once
\* the timer has run out (also when a response is ready by then):
\* delete(jq.responseMap, requestID) under jq.mutex, and return the timeout error.
TimeoutReturn(i) ==
    /\ calls[i].pc = "wait"
    /\ TimerArmed(calls[i].tmo)
    /\ calls[i].timer = 0
    /\ mutex = Free
    /\ responseMap' = RemovePending(calls[i].requestID)
    /\ calls' = [calls EXCEPT ![i].pc = "done",
                              ![i].framesAtReturn = Len(gframes),
                              ![i].result = Result("timeout", NoMsg)]
    /\ UNCHANGED <<nextID, running, mutex, closes, loopVars, inVars, inEOF,
                   outVars, handlerVars, workerVars, events, notQueue>>

\* ------------------------------------------------------------------ Close
\* A Close that goes on without clearing jq.running.
Close_KeepsRunning ==
    /\ mutex = Free
    /\ running
    /\ closes' = Append(closes, [pc |-> "exit", call |-> 0])
    /\ UNCHANGED <<callVars, running, mutex, loopVars, inVars, inEOF, outVars,
                   handlerVars, workerVars>>

\* jq.mutex.Lock(); if !jq.running { return nil }; jq.running = false
Close ==
    /\ mutex = Free
    /\ IF running
         THEN /\ running' = FALSE
              /\ closes' = Append(closes, [pc |-> "exit", call |-> 0])
         ELSE /\ closes' = Append(closes, [pc |-> "done", call |-> 0])
              /\ UNCHANGED running
    /\ UNCHANGED <<callVars, mutex, loopVars, inVars, inEOF, outVars,
                   handlerVars, workerVars>>

\* jq.SendCommand("exit", nil, 0, false)
CloseSendsExit(c) ==
    /\ closes[c].pc = "exit"
    /\ closes' = [closes EXCEPT ![c].pc = "terminate", ![c].call = Len(calls) + 1]
    /\ LET g == generateRequestID IN
        /\ nextID' = g.next
        /\ calls' = Append(calls, NewCall(g.id, "exit", FALSE, 0))
    /\ UNCHANGED <<responseMap, running, mutex, loopVars, inVars, inEOF,
                   outVars, handlerVars, workerVars, events, notQueue>>

\* time.Sleep(50ms); jq.PythonProcess.Terminate(): the child is signalled and
\* waited on, so its pipe ends are closed when Terminate returns.
CloseTerminates(c) ==
    /\ closes[c].pc = "terminate"
    /\ calls[closes[c].call].pc = "done"
    /\ closes' = [closes EXCEPT ![c].pc = "done"]
    /\ inEOF' = TRUE
    /\ UNCHANGED <<callVars, running, mutex, loopVars, inVars, outVars,
                   handlerVars, workerVars, events, notQueue>>

\* ------------------------------------------------------------------ guest
\* The guest writes one frame: the length header, then the payload.
GuestWrites(m) ==
    /\ ~inEOF
    /\ gframes' = Append(gframes, m)
    /\ fate' = Append(fate, "inflight")
    /\ pipeIn' = pipeIn \o <<Hdr(Len(gframes) + 1), Body(Len(gframes) + 1)>>
    /\ UNCHANGED <<callVars, running, mutex, closes, loopVars, inEOF, outVars,
                   handlerVars, workerVars>>

\* A response frame for a request the guest has read, in any order and any
\* number of times.
GuestResponds ==
    \E k \in DOMAIN pipeOut :
        /\ pipeOut[k].kind = "body"
        /\ GuestWrites(Message(sendOrder[pipeOut[k].ref].request_id, NoCmd,
                               "result", <<"v", "">>))

\* A request of the guest's own, with a py- request ID.
GuestRequests ==
    \E cmd \in Commands :
        /\ Len(gframes) < MaxRequests
        /\ GuestWrites(Message(<<PyPrefix, Len(gframes) + 1>>, cmd, "none", NoVal))

\* The guest exits or closes its pipe ends.
GuestExits ==
    /\ ~inEOF
    /\ inEOF' = TRUE
    /\ UNCHANGED <<callVars, running, mutex, closes, loopVars, inVars, outVars,
                   handlerVars, workerVars>>

\* ------------------------------------------------------------ messageLoop
\* running := jq.running under jq.mutex; if !running { break }
LoopCheck(l) ==
    /\ lpc[l] = "check"
    /\ mutex = Free
    /\ lpc' = [lpc EXCEPT ![l] = IF running THEN "hdr" ELSE "stopped"]
    /\ UNCHANGED <<callVars, running, mutex, closes, lhdr, lmsg, inVars, inEOF,
                   outVars, handlerVars, workerVars, events, notQueue>>

\* Receive: io.ReadFull of the 4-byte length, which takes whatever bytes are
\* next on the pipe: a frame whose payload is taken as a length is lost.
\* io.EOF ends the loop.
ReadHeader(l) ==
    /\ lpc[l] = "hdr"
    /\ IF pipeIn # <<>>
         THEN /\ lhdr' = [lhdr EXCEPT ![l] = Head(pipeIn)]
              /\ pipeIn' = Tail(pipeIn)
              /\ lpc' = [lpc EXCEPT ![l] = "body"]
              /\ fate' = IF Head(pipeIn).kind = "body"
                           THEN [fate EXCEPT ![Head(pipeIn).ref] = "garbled"]
                           ELSE fate
         ELSE /\ inEOF
              /\ lpc' = [lpc EXCEPT ![l] = "stopped"]
              /\ UNCHANGED <<lhdr, pipeIn, fate>>
    /\ UNCHANGED <<callVars, running, mutex, closes, lmsg, gframes, inEOF,
                   outVars, handlerVars, workerVars, events, notQueue>>

\* The bytes read as length and as payload are frame k only when they are the
\* header and the payload of k; anything else fails to decode.
Decodes(h, b) == h.kind = "hdr" /\ b.kind = "body" /\ h.ref = b.ref

\* Receive: io.ReadFull of the payload, then serializer.Unmarshal. A decode
\* error is logged and the loop continues; io.EOF ends the loop.
ReadPayload(l) ==
    /\ lpc[l] = "body"
    /\ IF pipeIn # <<>>
         THEN /\ pipeIn' = Tail(pipeIn)
              /\ IF Decodes(lhdr[l], Head(pipeIn))
                   THEN /\ lmsg' = [lmsg EXCEPT ![l] = Head(pipeIn).ref]
                        /\ lpc' = [lpc EXCEPT ![l] = "dispatch"]
                        /\ fate' = fate
                   ELSE /\ lpc' = [lpc EXCEPT ![l] = "check"]
                        /\ fate' = [k \in DOMAIN fate |->
                                      IF k \in {lhdr[l].ref, Head(pipeIn).ref}
                                        THEN "garbled" ELSE fate[k]]
                        /\ lmsg' = lmsg
         ELSE /\ inEOF
              /\ lpc' = [lpc EXCEPT ![l] = "stopped"]
              /\ UNCHANGED <<lmsg, pipeIn, fate>>
    /\ lhdr' = [lhdr EXCEPT ![l] = NoChunk]
    /\ UNCHANGED <<callVars, running, mutex, closes, gframes, inEOF, outVars,
                   handlerVars, workerVars, events, notQueue>>

\* if requestID, ok := message["request_id"].(string); ok && !HasPrefix(requestID, "py-")
IsResponse(m) == m.request_id # NoID /\ ~HasPyPrefix(m.request_id)

\* The frame handed to the oldest pending call, whatever its request_id.
PendingCall_Oldest(id) ==
    CHOOSE i \in {responseMap[x] : x \in DOMAIN responseMap} :
        \A x \in DOMAIN responseMap : i <= responseMap[x]

\* ch, exists := jq.responseMap[requestID]: the call whose channel gets the frame.
PendingCall(id) == responseMap[id]

NewWorker(k, m) ==
    [frame |-> k, command |-> m.command, requestID |-> m.request_id,
     regsSeen |-> 0, pc |-> "lookup",
     registered |-> NoHandler, default |-> NoHandler, handler |-> NoHandler,
     out |-> [ok |-> FALSE, val |-> NoVal], resp |-> NoMsg,
     sidx |-> 0, sent |-> FALSE]

\* The rest of one loop iteration. A response: under jq.mutex, if the ID is
\* pending, ch <- message and delete(jq.responseMap, requestID). Anything else:
\* with a request_id and a command, processingWg.Add(1) and go processCommand.
Dispatch(l) ==
    /\ lpc[l] = "dispatch"
    /\ LET k == lmsg[l]
           m == gframes[k]
           id == m.request_id IN
        IF IsResponse(m)
          THEN /\ mutex = Free
               /\ IF id \in DOMAIN responseMap
                    THEN LET i == PendingCall(id) IN
                         IF Len(calls[i].chan) < ChanCap
                           THEN /\ calls' = [calls EXCEPT ![i].chan = Append(@, m)]
                                /\ responseMap' = MapDelete(responseMap, id)
                                /\ fate' = [fate EXCEPT ![k] = "delivered"]
                                /\ lpc' = [lpc EXCEPT ![l] = "check"]
                                /\ lmsg' = [lmsg EXCEPT ![l] = 0]
                                /\ mutex' = mutex
                           ELSE \* the channel send blocks with jq.mutex held
                                /\ mutex' = LoopHolder(l)
                                /\ lpc' = [lpc EXCEPT ![l] = "sendblocked"]
                                /\ UNCHANGED <<calls, responseMap, fate, lmsg>>
                    ELSE /\ fate' = [fate EXCEPT ![k] = "discarded"]
                         /\ lpc' = [lpc EXCEPT ![l] = "check"]
                         /\ lmsg' = [lmsg EXCEPT ![l] = 0]
                         /\ UNCHANGED <<calls, responseMap, mutex>>
               /\ UNCHANGED workers
          ELSE /\ IF id # NoID /\ m.command # NoCmd
                    THEN /\ workers' = Append(workers, NewWorker(k, m))
                         /\ fate' = [fate EXCEPT ![k] = "dispatched"]
                    ELSE /\ fate' = [fate EXCEPT ![k] = "ignored"]
                         /\ UNCHANGED workers
               /\ lpc' = [lpc EXCEPT ![l] = "check"]
               /\ lmsg' = [lmsg EXCEPT ![l] = 0]
               /\ UNCHANGED <<calls, responseMap, mutex>>
    /\ UNCHANGED <<nextID, running, closes, lhdr, pipeIn, gframes, inEOF, outVars,
                   handlerVars, invocations, events, notQueue>>

\* ------------------------------------------- RegisterHandler, SetDefaultHandler
\* A registration that keeps the handler a command already has.
Registered_KeepFirst(command, handler) ==
    IF command \in DOMAIN commandHandlers
      THEN commandHandlers ELSE MapPut(commandHandlers, command, handler)

\* jq.commandHandlers[command] = handler
Registered(command, handler) == MapPut(commandHandlers, command, handler)

RegisterHandler(command, handler) ==
    /\ Len(regLog) < MaxRegistrations
    /\ mutex = Free
    /\ commandHandlers' = Registered(command, handler)
    /\ regLog' = Append(regLog, [command |-> command, handler |-> handler])
    /\ UNCHANGED <<callVars, running, mutex, closes, loopVars, inVars, inEOF,
                   outVars, defaultHandler, workerVars>>

\* jq.defaultHandler = handler
SetDefaultHandler(handler) ==
    /\ Len(regLog) < MaxRegistrations
    /\ mutex = Free
    /\ defaultHandler' = handler
    /\ regLog' = Append(regLog, [command |-> NoCmd, handler |-> handler])
    /\ UNCHANGED <<callVars, running, mutex, closes, loopVars, inVars, inEOF,
                   outVars, commandHandlers, workerVars>>

\* --------------------------------------------------------- processCommand
\* What a handler returns: (value, nil) or (nil, error). h1 succeeds, h2 fails.
HandlerOutcome(h) ==
    IF h = "h1" THEN [ok |-> TRUE, val |-> <<"ret", h>>]
                ELSE [ok |-> FALSE, val |-> <<"err", h>>]

\* A handler that panics instead of returning.
PanicHandler == "h3"

Panics(h) == h = PanicHandler

\* fmt.Errorf("unknown command: %s", command)
UnknownCommand(command) == [ok |-> FALSE, val |-> <<"unknown command: ", command>>]

\* The default handler asked first.
SelectHandler_DefaultFirst(registered, default) ==
    IF default # NoHandler THEN default ELSE registered

\* if exists { handler } else if defaultHandler != nil { defaultHandler } else { none }
SelectHandler(registered, default) ==
    IF registered # NoHandler THEN registered ELSE default

\* responseObj: "error" = err.Error() if err != nil, else "result" = response;
\* and "request_id" = requestID.
ResponseObj(out, requestID) ==
    Message(requestID, NoCmd, IF out.ok THEN "result" ELSE "error", out.val)

\* The handler lookup under jq.mutex, the handler's run, and the response built.
ProcessCommand(w) ==
    /\ workers[w].pc = "lookup"
    /\ mutex = Free
    /\ LET cmd == workers[w].command
           reg == IF cmd \in DOMAIN commandHandlers
                    THEN commandHandlers[cmd] ELSE NoHandler
           h == SelectHandler(reg, defaultHandler)
           out == IF h # NoHandler THEN HandlerOutcome(h) ELSE UnknownCommand(cmd) IN
        /\ ~Panics(h)
        /\ invocations' = IF h # NoHandler
                            THEN Append(invocations, [worker |-> w, handler |-> h])
                            ELSE invocations
        /\ workers' = [workers EXCEPT
                         ![w].registered = reg,
                         ![w].default = defaultHandler,
                         ![w].regsSeen = Len(regLog),
                         ![w].handler = h,
                         ![w].out = out,
                         ![w].resp = ResponseObj(out, workers[w].requestID),
                         ![w].pc = IF workers[w].requestID # NoID
                                     THEN "send" ELSE "done"]
    /\ UNCHANGED <<callVars, running, mutex, closes, loopVars, inVars, inEOF,
                   outVars, handlerVars, events, notQueue>>

\* The handler the worker calls panics. Neither processCommand nor the
\* goroutine that runs it recovers: the deferred processingWg.Done() runs and
\* the panic then ends the host program, every goroutine with it.
HandlerPanics(w) ==
    /\ workers[w].pc = "lookup"
    /\ mutex = Free
    /\ LET cmd == workers[w].command
           reg == IF cmd \in DOMAIN commandHandlers
                    THEN commandHandlers[cmd] ELSE NoHandler
           h == SelectHandler(reg, defaultHandler) IN
        /\ Panics(h)
        /\ invocations' = Append(invocations, [worker |-> w, handler |-> h])
        /\ workers' = [workers EXCEPT
                         ![w].registered = reg,
                         ![w].default = defaultHandler,
                         ![w].regsSeen = Len(regLog),
                         ![w].handler = h,
                         ![w].pc = "panicked"]
    /\ panicked' = TRUE
    /\ UNCHANGED <<callVars, running, mutex, closes, loopVars, inVars, inEOF,
                   outVars, handlerVars, events, svcCalls, procVars, replVars,
                   frameVars, applied, poolVars, launchVars>>

\* The response sent without taking jq.mutex.
WorkerLockForSend_NoLock(w) == mutex' = mutex

\* jq.mutex.Lock() before the response is sent.
WorkerLockForSend(w) == LockForSend(WorkerHolder(w))

\* transport.Send writes the 4-byte length of the response. A failed write is
\* logged and the worker ends.
WorkerSendHeader(w) ==
    /\ workers[w].pc = "send"
    /\ WorkerLockForSend(w)
    /\ sendOrder' = Append(sendOrder, workers[w].resp)
    /\ IF WriteFails
         THEN /\ workers' = [workers EXCEPT ![w].pc = "done",
                                            ![w].sidx = Len(sendOrder) + 1]
              /\ UNCHANGED pipeOut
         ELSE /\ pipeOut' = Append(pipeOut, Hdr(Len(sendOrder) + 1))
              /\ workers' = [workers EXCEPT ![w].pc = "payload",
                                            ![w].sidx = Len(sendOrder) + 1]
    /\ UNCHANGED <<callVars, running, closes, loopVars, inVars, inEOF,
                   handlerVars, invocations, events, notQueue>>

\* transport.Send writes the payload; jq.mutex.Unlock(); processingWg.Done().
WorkerSendPayload(w) ==
    /\ workers[w].pc = "payload"
    /\ Unlock(WorkerHolder(w))
    /\ IF WriteFails
         THEN /\ workers' = [workers EXCEPT ![w].pc = "done"]
              /\ UNCHANGED pipeOut
         ELSE /\ pipeOut' = Append(pipeOut, Body(workers[w].sidx))
              /\ workers' = [workers EXCEPT ![w].pc = "done", ![w].sent = TRUE]
    /\ UNCHANGED <<callVars, running, closes, loopVars, inVars, inEOF,
                   sendOrder, handlerVars, invocations, events, notQueue>>

\* ------------------------------------------------------------------- Init
\* discoverMethods' SendCommand("__get_methods__", nil, 0, true), which took
\* req-1 and has returned.
DiscoverCall ==
    [requestID |-> FormatRequestID(1), command |-> "__get_methods__",
     wait |-> TRUE, tmo |-> 0, pc |-> "done", chan |-> <<>>, timer |-> 0,
     sidx |-> 0, late |-> FALSE, framesAtReturn |-> 0,
     result |-> Result("response",
                       Message(FormatRequestID(1), NoCmd, "result", <<"v", "">>))]

\* The state NewQueueProcess leaves but for the calls made: both receive loops
\* started, running set by Start(), nothing sent or received yet.
Started ==
    /\ responseMap = <<>>
    /\ running = TRUE
    /\ mutex = Free
    /\ closes = <<>>
    /\ lpc = [l \in Loops |-> "check"]
    /\ lhdr = [l \in Loops |-> NoChunk]
    /\ lmsg = [l \in Loops |-> 0]
    /\ pipeIn = <<>>
    /\ inEOF = FALSE
    /\ gframes = <<>>
    /\ fate = <<>>
    /\ pipeOut = <<>>
    /\ sendOrder = <<>>
    /\ commandHandlers = <<>>
    /\ defaultHandler = NoHandler
    /\ regLog = <<>>
    /\ workers = <<>>
    /\ invocations = <<>>
    /\ events = 0
    /\ child = "running"
    /\ exitStatus = "none"
    /\ signals = <<>>
    /\ terms = <<>>
    /\ rppM = 0
    /\ closed = FALSE
    /\ combinedOutput = TRUE
    /\ rcalls = <<>>
    /\ rPipeOut = <<>>
    /\ gpos = 0
    /\ rPipeIn = <<>>
    /\ statusIn = <<>>
    /\ StatusChan = <<>>
    /\ ExceptionChan = <<>>
    /\ wire = <<>>
    /\ sent = <<>>
    /\ sendpc = "idle"
    /\ received = <<>>
    /\ recvlen = <<>>
    /\ svcCalls = <<>>
    /\ panicked = FALSE
    /\ applied = <<>>
    /\ pool = [n \in 1..PoolCount |-> Buffer(n, PoolBufSize, PoolBufSize)]
    /\ bpc = [g \in Goroutines |-> "idle"]
    /\ held = [g \in Goroutines |-> NoBuffer]
    /\ nextBuf = PoolCount + 1
    /\ bplog = <<>>
    /\ fdOpen = [e \in PipeEnds |-> IF e \in ChildEnds
                                      THEN ({"host"} \ HostCloses(e)) \cup {"child"}
                                      ELSE {"host"}]
    /\ cmdState = "started"
    /\ feeders = [f \in {"bootstrap_w", "program_w"} |-> "write"]
    /\ dataPipe = 0
    /\ dataLoop = <<"reading", 0>>
    /\ statusPipe = <<>>
    /\ spc = "scan"
    /\ schan = <<>>
    /\ echan = <<>>
    /\ slog = <<>>

\* The state NewQueueProcess returns in: both receive loops started, running
\* set by Start(), nextID past discoverMethods' request.
Init ==
    /\ nextID = 2
    /\ calls = <<DiscoverCall>>
    /\ Started

\* ---------------------------------------------------------- specifications
\* One more act of the environment, while the run's budget lasts.
Event(max) == events < max /\ events' = events + 1

\* One more act of the queue's environment.
QueueEvent(max) == Event(max) /\ UNCHANGED notQueue

\* The steps of a caller inside SendCommand.
CallerStep ==
    \/ \E i \in DOMAIN calls : InsertPending(i)
    \/ \E i \in DOMAIN calls : SendHeader(i)
    \/ \E i \in DOMAIN calls : SendPayload(i)
    \/ \E i \in DOMAIN calls : ReceiveResponse(i)
    \/ Tick
    \/ \E i \in DOMAIN calls : TimeoutReturn(i)

\* The steps of the receive loops.
LoopStep ==
    \/ \E l \in Loops : LoopCheck(l)
    \/ \E l \in Loops : ReadHeader(l)
    \/ \E l \in Loops : ReadPayload(l)
    \/ \E l \in Loops : Dispatch(l)

\* Callers with and without timeouts, the guest answering and exiting.
NextCall ==
    \/ QueueEvent(MaxEvents) /\ \E t \in 0..MaxTimeout : SendCommand("m", TRUE, t)
    \/ QueueEvent(MaxEvents) /\ SendCommand("m", FALSE, 0)
    \/ QueueEvent(MaxEvents) /\ GuestResponds
    \/ QueueEvent(MaxEvents) /\ GuestExits
    \/ CallerStep
    \/ LoopStep

Spec == Init /\ [][NextCall]_vars

\* Go schedules every runnable goroutine, and timers fire.
FairSpec == Spec /\ WF_vars(CallerStep \/ LoopStep)

\* Close, with callers before and after it.
NextClose ==
    \/ QueueEvent(MaxCloseEvents) /\ Close
    \/ \E c \in DOMAIN closes : CloseSendsExit(c)
    \/ \E c \in DOMAIN closes : CloseTerminates(c)
    \/ QueueEvent(MaxCloseEvents) /\ \E t \in 0..MaxTimeout : SendCommand("m", TRUE, t)
    \/ QueueEvent(MaxCloseEvents) /\ GuestResponds
    \/ CallerStep
    \/ LoopStep

SpecClose == Init /\ [][NextClose]_vars

\* The guest calling the host's handlers while a caller sends.
NextCmd ==
    \/ QueueEvent(MaxCmdEvents) /\ SendCommand("m", FALSE, 0)
    \/ \E i \in DOMAIN calls : SendHeader(i)
    \/ \E i \in DOMAIN calls : SendPayload(i)
    \/ QueueEvent(MaxCmdEvents) /\ GuestRequests
    \/ QueueEvent(MaxCmdEvents) /\ \E cmd \in Commands, h \in Handlers : RegisterHandler(cmd, h)
    \/ QueueEvent(MaxCmdEvents) /\ \E h \in Handlers : SetDefaultHandler(h)
    \/ LoopStep
    \/ \E w \in DOMAIN workers : ProcessCommand(w)
    \/ \E w \in DOMAIN workers : WorkerSendHeader(w)
    \/ \E w \in DOMAIN workers : WorkerSendPayload(w)

SpecCmd == Init /\ [][NextCmd]_vars

\* ------------------------------------------------- the child and Terminate
\* Terminate invocations in one run of SpecProc, plus the child's own exit.
MaxProcEvents == 2
\* time.After(5 * time.Second), in seconds.
TerminateGrace == 5

\* What Cmd.Wait returns for a child that ended with the given status: nil for
\* exit status 0, an *exec.ExitError otherwise.
WaitResult(status) ==
    IF status = "exit0" THEN "nil"
    ELSE IF status = "SIGKILL" THEN "signal: killed"
    ELSE "signal: terminated"

\* os.ErrProcessDone: Signal or Kill on a process that was already waited on.
ErrProcessDone == "os: process already finished"
\* Cmd.Wait on a child that was already waited on.
ErrWaitAgain == "exec: Wait was already called"

\* One Terminate invocation. atCall is the child's state when it was called,
\* sentTo its state when SIGTERM was sent; done is the channel of capacity 1
\* its goroutine sends the wait result on, waited what its Cmd.Wait returned.
NewTerminate(by) ==
    [pc |-> "signal", by |-> by, atCall |-> child, elapsed |-> 0,
     sentTo |-> "none", killed |-> FALSE, waiting |-> FALSE,
     done |-> <<>>, waited |-> "none", ret |-> "none"]

Terminate(by) == terms' = Append(terms, NewTerminate(by))

\* pp.Cmd.Process.Signal(syscall.SIGTERM), after the Process == nil test.
\* Process is set by Start and never cleared. A child that exited and was not
\* waited on may or may not still take the signal call, by platform.
TerminateSignal(t) ==
    /\ terms[t].pc = "signal"
    /\ \/ /\ child = "reaped" \/ child = "exited"
          /\ terms' = [terms EXCEPT ![t].pc = "done", ![t].ret = ErrProcessDone]
          /\ UNCHANGED signals
       \/ /\ child # "reaped"
          /\ signals' = IF child = "running" THEN Append(signals, "SIGTERM")
                        ELSE signals
          /\ terms' = [terms EXCEPT ![t].pc = "select", ![t].sentTo = child,
                                    ![t].waiting = TRUE]
    /\ UNCHANGED <<child, exitStatus, notProc>>

\* go func() { done <- pp.Cmd.Wait() }()
TerminateWait(t) ==
    /\ terms[t].waiting
    /\ child # "running"
    /\ LET r == IF child = "exited" THEN WaitResult(exitStatus) ELSE ErrWaitAgain
       IN terms' = [terms EXCEPT ![t].waiting = FALSE, ![t].done = <<r>>,
                                 ![t].waited = r]
    /\ child' = "reaped"
    /\ UNCHANGED <<exitStatus, signals, notProc>>

\* One second passes for a Terminate inside its select: the child still runs,
\* so neither the waiting goroutine nor the select has anything to take.
TerminateTick(t) ==
    /\ terms[t].pc = "select"
    /\ terms[t].elapsed < TerminateGrace
    /\ terms[t].waiting /\ child = "running"
    /\ terms' = [terms EXCEPT ![t].elapsed = @ + 1]
    /\ UNCHANGED <<child, exitStatus, signals, notProc>>

\* case <-time.After(5 * time.Second): err = pp.Cmd.Process.Kill()
TerminateKill(t) ==
    /\ terms[t].pc = "select"
    /\ terms[t].elapsed = TerminateGrace
    /\ IF child = "reaped"
       THEN /\ terms' = [terms EXCEPT ![t].pc = "done", ![t].ret = ErrProcessDone]
            /\ UNCHANGED signals
       ELSE /\ terms' = [terms EXCEPT ![t].pc = "killed", ![t].killed = TRUE]
            /\ signals' = IF child = "running" THEN Append(signals, "SIGKILL")
                          ELSE signals
    /\ UNCHANGED <<child, exitStatus, notProc>>

\* <-done after Kill: the wait result is dropped and Kill's nil error returned.
TerminateAfterKill(t) ==
    /\ terms[t].pc = "killed"
    /\ terms[t].done # <<>>
    /\ terms' = [terms EXCEPT ![t].pc = "done", ![t].done = <<>>, ![t].ret = "nil"]
    /\ UNCHANGED <<child, exitStatus, signals, notProc>>

\* case err = <-done: return err
TerminateExited(t) ==
    /\ terms[t].pc = "select"
    /\ terms[t].done # <<>>
    /\ terms' = [terms EXCEPT ![t].pc = "done", ![t].done = <<>>,
                              ![t].ret = terms[t].done[1]]
    /\ UNCHANGED <<child, exitStatus, signals, notProc>>

\* The child ends: killed by SIGKILL, ended by SIGTERM (or exiting with status
\* 0 from its handler), or exiting by itself.
ChildExits ==
    /\ child = "running"
    /\ child' = "exited"
    /\ exitStatus' \in
          IF \E n \in DOMAIN signals : signals[n] = "SIGKILL" THEN {"SIGKILL"}
          ELSE IF signals # <<>> THEN {"SIGTERM", "exit0"}
          ELSE {"exit0"}
    /\ UNCHANGED <<signals, terms, replVars, notChild>>

\* The steps of Terminate and of its waiting goroutine.
TerminateStep ==
    \/ \E t \in DOMAIN terms : TerminateSignal(t)
    \/ \E t \in DOMAIN terms : TerminateWait(t)
    \/ \E t \in DOMAIN terms : TerminateTick(t)
    \/ \E t \in DOMAIN terms : TerminateKill(t)
    \/ \E t \in DOMAIN terms : TerminateAfterKill(t)
    \/ \E t \in DOMAIN terms : TerminateExited(t)

\* Terminate called by a user or by the signal handler.
CallTerminate ==
    /\ Event(MaxProcEvents)
    /\ Terminate("user")
    /\ UNCHANGED <<child, exitStatus, signals, replVars, notChild>>

\* Terminate calls while the child may exit by itself or on a signal.
NextProc ==
    \/ CallTerminate
    \/ Event(MaxProcEvents) /\ signals = <<>> /\ ChildExits
    \/ signals # <<>> /\ ChildExits /\ UNCHANGED events
    \/ TerminateStep

SpecProc == Init /\ [][NextProc]_vars

\* ------------------------------------------------------ REPLPythonProcess
\* Execute, ExecuteWithTimeout and Close invocations in one run of SpecRepl,
\* plus the child's own exit.
MaxReplEvents == 2

\* '\n' and '\r'.
LF == 10
CR == 13
\* "\x01\x02\x03\n" and "\x01\x02\x03\r\n"
DELIMITER == <<1, 2, 3, LF>>
WINDELIMITER == <<1, 2, 3, CR, LF>>

\* strings.HasSuffix, strings.TrimSuffix
HasSuffix(str, suffix) ==
    /\ Len(str) >= Len(suffix)
    /\ SubSeq(str, Len(str) - Len(suffix) + 1, Len(str)) = suffix
TrimSuffix(str, suffix) ==
    IF HasSuffix(str, suffix) THEN SubSeq(str, 1, Len(str) - Len(suffix)) ELSE str

\* strings.TrimRight(str, cutset)
RECURSIVE TrimRight(_, _)
TrimRight(str, cutset) ==
    IF str # <<>> /\ str[Len(str)] \in cutset
    THEN TrimRight(SubSeq(str, 1, Len(str) - 1), cutset) ELSE str

\* strings.Contains
Contains(str, sub) ==
    \E n \in 1..(Len(str) - Len(sub) + 1) : SubSeq(str, n, n + Len(sub) - 1) = sub

\* reader.ReadString('\n') on buffered bytes: the line up to and including the
\* first '\n'.
HasLine(buf) == \E n \in DOMAIN buf : buf[n] = LF
LineEnd(buf) == CHOOSE n \in DOMAIN buf : buf[n] = LF /\ \A j \in 1..(n - 1) : buf[j] # LF

\* What the guest prints for a submission, as text: none of it holds the
\* three-byte prefix of the sentinel.
Outputs == {<<>>, <<97, LF>>, <<1, 2, LF, 97, LF, LF>>}

\* The guest's output stream in text mode: on Windows every LF leaves as CR LF.
RECURSIVE TextMode(_, _)
TextMode(text, win) ==
    IF text = <<>> THEN <<>>
    ELSE (IF win /\ text[1] = LF THEN <<CR, LF>> ELSE <<text[1]>>)
         \o TextMode(Tail(text), win)

\* Code a caller submits: what it prints and how it ends (normally, raising,
\* or never).
Codes ==
    {[ends |-> "ok", out |-> o] : o \in Outputs}
        \cup {[ends |-> "raise", out |-> <<>>], [ends |-> "never", out |-> <<>>]}

NoEvent == [type |-> "none", sub |-> 0]

\* One invocation of Execute, ExecuteWithTimeout or Close. sub is the place of
\* its code in rPipeOut; event the status or exception it received; rbuf its
\* bufio.Reader; result its strings.Builder.
NewReplCall(kind, code, combined, win) ==
    [kind |-> kind, code |-> code, combined |-> combined, iswin |-> win,
     pc |-> "lock", sub |-> 0, event |-> NoEvent, rbuf |-> <<>>, result |-> <<>>,
     term |-> 0, output |-> <<>>, err |-> "none"]

\* runtime.GOOS is the same for every call of a run.
SameBuild(win) == rcalls # <<>> => win = rcalls[1].iswin

Execute(code, combined, win) ==
    /\ SameBuild(win)
    /\ rcalls' = Append(rcalls, NewReplCall("Execute", code, combined, win))

ExecuteWithTimeout(code, combined, win) ==
    /\ SameBuild(win)
    /\ rcalls' = Append(rcalls, NewReplCall("ExecuteWithTimeout", code, combined, win))

ReplClose(win) ==
    /\ SameBuild(win)
    /\ rcalls' = Append(rcalls, NewReplCall("Close", [ends |-> "ok", out |-> <<>>], TRUE, win))

\* return with the mutex released by the deferred Unlock.
ReplReturn(c, output, err) ==
    /\ rcalls' = [rcalls EXCEPT ![c].pc = "done", ![c].output = output,
                                ![c].err = err, ![c].rbuf = <<>>]
    /\ rppM' = 0

\* The closed test made once rpp.m is held. Close marks the REPL closed and
\* calls Terminate.
ReplEnter(c) ==
    /\ rcalls[c].pc = "lock"
    /\ IF closed
       THEN /\ ReplReturn(c, <<>>, "closed")
            /\ UNCHANGED <<closed, terms>>
       ELSE IF rcalls[c].kind = "Close"
       THEN /\ closed' = TRUE
            /\ terms' = Append(terms, NewTerminate(<<"repl", c>>))
            /\ rcalls' = [rcalls EXCEPT ![c].pc = "term", ![c].term = Len(terms) + 1]
            /\ rppM' = c
       ELSE /\ rcalls' = [rcalls EXCEPT ![c].pc = "mode"]
            /\ rppM' = c
            /\ UNCHANGED <<closed, terms>>
    /\ UNCHANGED <<combinedOutput, rPipeOut, gpos, rPipeIn, statusIn, StatusChan,
                   ExceptionChan, child, exitStatus, signals, notChild, events>>

ReplLock_NoMutex(c) == ReplEnter(c)

\* rpp.m.Lock()
ReplLock(c) ==
    /\ rppM = 0
    /\ ReplEnter(c)

\* if rpp.combinedOutput != combinedOutput: the control line, written with
\* PipeOut.WriteString, which fails once the child has closed its end.
ReplMode(c) ==
    /\ rcalls[c].pc = "mode"
    /\ IF combinedOutput = rcalls[c].combined
       THEN /\ rcalls' = [rcalls EXCEPT ![c].pc = "write"]
            /\ UNCHANGED <<rppM, combinedOutput, rPipeOut>>
       ELSE IF child # "running"
       THEN /\ ReplReturn(c, <<>>, "write")
            /\ UNCHANGED <<combinedOutput, rPipeOut>>
       ELSE /\ rPipeOut' = Append(rPipeOut, [call |-> c, control |-> TRUE])
            /\ combinedOutput' = rcalls[c].combined
            /\ rcalls' = [rcalls EXCEPT ![c].pc = "write"]
            /\ UNCHANGED rppM
    /\ UNCHANGED <<closed, gpos, rPipeIn, statusIn, StatusChan, ExceptionChan,
                   procVars, notChild, events>>

\* The code with the sentinel appended, written with PipeOut.WriteString.
ReplWrite(c) ==
    /\ rcalls[c].pc = "write"
    /\ IF child # "running"
       THEN /\ ReplReturn(c, <<>>, "write")
            /\ UNCHANGED rPipeOut
       ELSE /\ rPipeOut' = Append(rPipeOut, [call |-> c, control |-> FALSE])
            /\ rcalls' = [rcalls EXCEPT
                 ![c].sub = Len(rPipeOut) + 1,
                 ![c].pc = IF rcalls[c].kind = "Execute" THEN "event" ELSE "read"]
            /\ UNCHANGED rppM
    /\ UNCHANGED <<closed, combinedOutput, gpos, rPipeIn, statusIn, StatusChan,
                   ExceptionChan, procVars, notChild, events>>

\* select { case <-rpp.StatusChan: case e := <-rpp.ExceptionChan: }
ReplEvent(c) ==
    /\ rcalls[c].pc = "event"
    /\ \/ /\ StatusChan # <<>>
          /\ rcalls' = [rcalls EXCEPT ![c].event = Head(StatusChan), ![c].pc = "read"]
          /\ StatusChan' = Tail(StatusChan)
          /\ UNCHANGED ExceptionChan
       \/ /\ ExceptionChan # <<>>
          /\ rcalls' = [rcalls EXCEPT ![c].event = Head(ExceptionChan), ![c].pc = "read"]
          /\ ExceptionChan' = Tail(ExceptionChan)
          /\ UNCHANGED StatusChan
    /\ UNCHANGED <<rppM, closed, combinedOutput, rPipeOut, gpos, rPipeIn, statusIn,
                   procVars, notChild, events>>

\* The bufio.Reader made for this call fills from PipeIn with what is there.
ReplFill(c) ==
    /\ rcalls[c].pc = "read"
    /\ ~HasLine(rcalls[c].rbuf)
    /\ rPipeIn # <<>>
    /\ rcalls' = [rcalls EXCEPT ![c].rbuf = @ \o rPipeIn]
    /\ rPipeIn' = <<>>
    /\ UNCHANGED <<rppM, closed, combinedOutput, rPipeOut, gpos, statusIn,
                   StatusChan, ExceptionChan, procVars, notChild, events>>

\* The sentinel this call looks for. Execute looks for WINDELIMITER alone on
\* Windows; ExecuteWithTimeout for DELIMITER on every build.
Sentinel(c) ==
    IF rcalls[c].kind = "Execute" /\ rcalls[c].iswin THEN WINDELIMITER ELSE DELIMITER

\* The trimming of the accumulated text once it ends with the sentinel.
Output_KeepNewlines(text, sentinel) == TrimSuffix(text, sentinel)

Output(text, sentinel) == TrimRight(TrimSuffix(text, sentinel), {LF, CR})

\* The error Execute returns with the output: the saved exception, if any.
\* ExecuteWithTimeout returns nil.
Exerr(c) ==
    IF rcalls[c].event.type = "exception" THEN "exception" ELSE "nil"

\* One round of the read loop: ReadString('\n'), append, test for the
\* sentinel; at end of file the rest of the bytes, then "unexpected EOF".
ReplLine(c) ==
    /\ rcalls[c].pc = "read"
    /\ LET buf == rcalls[c].rbuf
           eof == ~HasLine(buf) /\ rPipeIn = <<>> /\ child # "running"
           line == IF HasLine(buf) THEN SubSeq(buf, 1, LineEnd(buf)) ELSE buf
           rest == IF HasLine(buf) THEN SubSeq(buf, LineEnd(buf) + 1, Len(buf)) ELSE <<>>
           text == rcalls[c].result \o line
       IN /\ HasLine(buf) \/ eof
          /\ IF HasSuffix(text, Sentinel(c))
             THEN ReplReturn(c, Output(text, Sentinel(c)), Exerr(c))
             ELSE IF eof
             THEN ReplReturn(c, <<>>, "eof")
             ELSE /\ rcalls' = [rcalls EXCEPT ![c].rbuf = rest, ![c].result = text]
                  /\ UNCHANGED rppM
    /\ UNCHANGED <<closed, combinedOutput, rPipeOut, gpos, rPipeIn, statusIn,
                   StatusChan, ExceptionChan, procVars, notChild, events>>

\* case <-time.After(timeout): rpp.PythonProcess.Terminate()
ReplDeadline(c) ==
    /\ rcalls[c].kind = "ExecuteWithTimeout"
    /\ rcalls[c].pc = "read"
    /\ terms' = Append(terms, NewTerminate(<<"repl", c>>))
    /\ rcalls' = [rcalls EXCEPT ![c].pc = "term", ![c].term = Len(terms) + 1]
    /\ UNCHANGED <<rppM, closed, combinedOutput, rPipeOut, gpos, rPipeIn, statusIn,
                   StatusChan, ExceptionChan, child, exitStatus, signals,
                   notChild, events>>

\* rpp.closed = true after the timeout's Terminate.
ClosedAfterTimeout_StaysOpen == closed

ClosedAfterTimeout == TRUE

\* Terminate has returned: ExecuteWithTimeout marks the REPL closed and returns
\* the timeout error; Close returns what Terminate returned.
ReplTerminated(c) ==
    /\ rcalls[c].pc = "term"
    /\ terms[rcalls[c].term].pc = "done"
    /\ closed' = ClosedAfterTimeout
    /\ ReplReturn(c, <<>>, IF rcalls[c].kind = "Close" THEN terms[rcalls[c].term].ret
                           ELSE "timeout")
    /\ UNCHANGED <<combinedOutput, rPipeOut, gpos, rPipeIn, statusIn, StatusChan,
                   ExceptionChan, procVars, notChild, events>>

\* The guest reads the next submission. A control line sets its mode and
\* answers nothing. Code is run: unless it never ends, the guest writes one
\* status or exception record, and the code's output followed by the sentinel.
GuestRuns ==
    /\ child = "running"
    /\ gpos < Len(rPipeOut)
    /\ LET s == rPipeOut[gpos + 1]
           g == rcalls[s.call]
       IN /\ s.control \/ g.code.ends # "never"
          /\ gpos' = gpos + 1
          /\ IF s.control
             THEN UNCHANGED <<rPipeIn, statusIn>>
             ELSE /\ statusIn' = Append(statusIn,
                        [type |-> IF g.code.ends = "raise" THEN "exception" ELSE "status",
                         sub |-> gpos + 1])
                  /\ rPipeIn' = rPipeIn \o TextMode(g.code.out \o DELIMITER, g.iswin)
    /\ UNCHANGED <<rppM, closed, combinedOutput, rcalls, rPipeOut, StatusChan,
                   ExceptionChan, procVars, notChild, events>>

\* The status goroutine: one record scanned and sent on its channel of
\* capacity 1.
StatusReader ==
    /\ statusIn # <<>>
    /\ LET e == Head(statusIn)
       IN IF e.type = "status"
          THEN /\ Len(StatusChan) < ChanCap
               /\ StatusChan' = Append(StatusChan, e)
               /\ UNCHANGED ExceptionChan
          ELSE /\ Len(ExceptionChan) < ChanCap
               /\ ExceptionChan' = Append(ExceptionChan, e)
               /\ UNCHANGED StatusChan
    /\ statusIn' = Tail(statusIn)
    /\ UNCHANGED <<rppM, closed, combinedOutput, rcalls, rPipeOut, gpos, rPipeIn,
                   procVars, notChild, events>>

\* The steps of the calls in progress.
ReplStep ==
    \/ \E c \in DOMAIN rcalls : ReplLock(c)
    \/ \E c \in DOMAIN rcalls : ReplMode(c)
    \/ \E c \in DOMAIN rcalls : ReplWrite(c)
    \/ \E c \in DOMAIN rcalls : ReplEvent(c)
    \/ \E c \in DOMAIN rcalls : ReplFill(c)
    \/ \E c \in DOMAIN rcalls : ReplLine(c)
    \/ \E c \in DOMAIN rcalls : ReplTerminated(c)

\* What a call of the REPL's API leaves alone.
ReplCallFrame ==
    UNCHANGED <<rppM, closed, combinedOutput, rPipeOut, gpos, rPipeIn, statusIn,
                StatusChan, ExceptionChan, procVars, notChild>>

\* Callers of one REPL, its guest, and the deadline of ExecuteWithTimeout.
NextRepl ==
    \/ Event(MaxReplEvents) /\ ReplCallFrame
         /\ \E code \in Codes, comb, win \in BOOLEAN : Execute(code, comb, win)
    \/ Event(MaxReplEvents) /\ ReplCallFrame
         /\ \E code \in Codes, comb, win \in BOOLEAN :
                ExecuteWithTimeout(code, comb, win)
    \/ Event(MaxReplEvents) /\ ReplCallFrame /\ \E win \in BOOLEAN : ReplClose(win)
    \/ ReplStep
    \/ \E c \in DOMAIN rcalls : ReplDeadline(c)
    \/ GuestRuns
    \/ StatusReader
    \/ TerminateStep
    \/ signals # <<>> /\ ChildExits /\ UNCHANGED events

SpecRepl == Init /\ [][NextRepl]_vars

\* Close of a REPL while Execute calls are made and in progress.
NextReplClose ==
    \/ Event(MaxReplEvents) /\ ReplCallFrame
         /\ \E code \in Codes : Execute(code, TRUE, FALSE)
    \/ Event(MaxReplEvents) /\ ReplCallFrame /\ ReplClose(FALSE)
    \/ ReplStep
    \/ GuestRuns
    \/ StatusReader
    \/ TerminateStep
    \/ signals # <<>> /\ ChildExits /\ UNCHANGED events

SpecReplClose == Init /\ [][NextReplClose]_vars

\* Calls and the child's own exit in one run of SpecReplMode.
MaxModeEvents == 3

\* Callers asking for either output mode while the child may end by itself,
\* after which writes to it fail.
NextReplMode ==
    \/ Event(MaxModeEvents) /\ ReplCallFrame
         /\ \E comb \in BOOLEAN : Execute([ends |-> "ok", out |-> <<>>], comb, FALSE)
    \/ Event(MaxModeEvents) /\ ReplCallFrame
         /\ \E comb \in BOOLEAN :
                ExecuteWithTimeout([ends |-> "ok", out |-> <<>>], comb, FALSE)
    \/ Event(MaxModeEvents) /\ signals = <<>> /\ ChildExits
    \/ \E c \in DOMAIN rcalls : ReplLock(c)
    \/ \E c \in DOMAIN rcalls : ReplMode(c)
    \/ \E c \in DOMAIN rcalls : ReplWrite(c)
    \/ \E c \in DOMAIN rcalls : ReplEvent(c)
    \/ \E c \in DOMAIN rcalls : ReplFill(c)
    \/ \E c \in DOMAIN rcalls : ReplLine(c)
    \/ GuestRuns
    \/ StatusReader

SpecReplMode == Init /\ [][NextReplMode]_vars

\* SIGKILL ends the child.
ChildKilled ==
    /\ \E n \in DOMAIN signals : signals[n] = "SIGKILL"
    /\ ChildExits
    /\ UNCHANGED events

\* Go schedules every runnable goroutine, the guest runs while it lives, timers
\* fire, and a killed child ends.
FairSpecReplClose ==
    /\ SpecReplClose
    /\ WF_vars(ReplStep)
    /\ WF_vars(GuestRuns)
    /\ WF_vars(StatusReader)
    /\ WF_vars(TerminateStep)
    /\ WF_vars(ChildKilled)

\* ------------------------------------------------ MsgpackTransport framing
\* Send invocations in one run of SpecFrame.
MaxFrames == 2


\* Lengths go beyond 32 bits, so a length is kept as <<high, low>>, two digits
\* in base 2^16: len(data) has any high digit, a uint32 a high digit below 2^16.
Half == 65536
Zero == <<0, 0>>
Num(n) == <<n \div Half, n % Half>>
Less(a, b) == a[1] < b[1] \/ (a[1] = b[1] /\ a[2] < b[2])
Plus(a, b) == <<a[1] + b[1] + ((a[2] + b[2]) \div Half), (a[2] + b[2]) % Half>>
Minus(a, b) ==
    IF a[2] >= b[2] THEN <<a[1] - b[1], a[2] - b[2]>>
    ELSE <<a[1] - b[1] - 1, a[2] + Half - b[2]>>

\* uint32(len(data)): the low 32 bits.
Uint32(n) == <<n[1] % Half, n[2]>>

\* binary.BigEndian.PutUint32 and binary.BigEndian.Uint32
PutUint32(n) == <<n[1] \div 256, n[1] % 256, n[2] \div 256, n[2] % 256>>
BigEndianUint32(b) == <<b[1] * 256 + b[2], b[3] * 256 + b[4]>>

\* Bytes are kept as runs: n bytes of value v. A text is a sequence of runs in
\* which neighbours differ and no run is empty.
Run(v, n) == [v |-> v, n |-> n]

RECURSIVE Normal(_)
Normal(runs) ==
    IF runs = <<>> THEN <<>>
    ELSE IF Head(runs).n = Zero THEN Normal(Tail(runs))
    ELSE LET rest == Normal(Tail(runs))
         IN IF rest # <<>> /\ rest[1].v = Head(runs).v
            THEN <<Run(rest[1].v, Plus(Head(runs).n, rest[1].n))>> \o Tail(rest)
            ELSE <<Head(runs)>> \o rest

RECURSIVE Size(_)
Size(runs) == IF runs = <<>> THEN Zero ELSE Plus(Head(runs).n, Size(Tail(runs)))

\* What the writer wrote for a byte slice given byte by byte.
RECURSIVE Runs(_)
Runs(bytes) ==
    IF bytes = <<>> THEN <<>> ELSE <<Run(Head(bytes), Num(1))>> \o Runs(Tail(bytes))

\* io.ReadFull(reader, buf) with len(buf) = n, on a stream holding at least n
\* bytes: the bytes read and the stream left.
RECURSIVE ReadFull(_, _)
ReadFull(stream, n) ==
    IF n = Zero THEN [got |-> <<>>, rest |-> stream]
    ELSE LET h == Head(stream)
         IN IF Less(n, h.n)
            THEN [got |-> <<Run(h.v, n)>>,
                  rest |-> <<Run(h.v, Minus(h.n, n))>> \o Tail(stream)]
            ELSE LET r == ReadFull(Tail(stream), Minus(n, h.n))
                 IN [got |-> <<h>> \o r.got, rest |-> r.rest]

\* The four bytes of a length buffer, one by one.
RECURSIVE Bytes(_)
Bytes(runs) ==
    IF runs = <<>> THEN <<>>
    ELSE IF Head(runs).n = Num(1) THEN <<Head(runs).v>> \o Bytes(Tail(runs))
    ELSE <<Head(runs).v>>
           \o Bytes(<<Run(Head(runs).v, Minus(Head(runs).n, Num(1)))>> \o Tail(runs))

\* Payloads a caller passes to Send: empty, one byte, exactly a pooled buffer,
\* one byte more, and 2^32 and 2^32 + 1 bytes.
Payloads ==
    {<<>>,
     <<Run(7, Num(1))>>,
     <<Run(7, Num(PoolBufSize))>>,
     <<Run(0, Num(1)), Run(7, Num(PoolBufSize))>>,
     <<Run(7, <<Half, 0>>)>>,
     <<Run(7, <<Half, 1>>)>>}

\* Send: the length buffer written and flushed.
TransportSend(data) ==
    /\ sendpc = "idle"
    /\ sent' = Append(sent, data)
    /\ wire' = wire \o Runs(PutUint32(Uint32(Size(data))))
    /\ sendpc' = "data"
    /\ UNCHANGED <<received, recvlen, notFrame>>

\* Send: mt.writer.Write(data) and the flush.
TransportSendData ==
    /\ sendpc = "data"
    /\ wire' = wire \o sent[Len(sent)]
    /\ sendpc' = "idle"
    /\ UNCHANGED <<sent, received, recvlen, notFrame, events>>

\* Receive: io.ReadFull of the four length bytes, which waits for them.
TransportReceive ==
    /\ recvlen = <<>>
    /\ ~Less(Size(wire), Num(4))
    /\ LET r == ReadFull(wire, Num(4))
       IN /\ recvlen' = <<BigEndianUint32(Bytes(r.got))>>
          /\ wire' = r.rest
    /\ UNCHANGED <<sent, sendpc, received, notFrame, events>>

\* Receive: the payload read into a pooled buffer and copied, or into a new
\* buffer when it is longer than a pooled one.
TransportReceiveData ==
    /\ recvlen # <<>>
    /\ ~Less(Size(wire), recvlen[1])
    /\ LET r == ReadFull(wire, recvlen[1])
       IN /\ received' = Append(received,
                [data |-> Normal(r.got),
                 path |-> IF ~Less(Num(PoolBufSize), recvlen[1]) THEN "pool" ELSE "fresh"])
          /\ wire' = r.rest
    /\ recvlen' = <<>>
    /\ UNCHANGED <<sent, sendpc, notFrame, events>>

\* Sends on one end and Receives on the other.
NextFrame ==
    \/ Event(MaxFrames) /\ \E data \in Payloads : TransportSend(data)
    \/ TransportSendData
    \/ TransportReceive
    \/ TransportReceiveData

SpecFrame == Init /\ [][NextFrame]_vars

\* ------------------------------------------- service struct handlers
\* Guest requests for bound methods in one run of SpecService.
MaxServiceCalls == 2

\* The exported methods of the service struct, by the types of their
\* parameters after the receiver and the kinds of their results ("error" for
\* a result of the error interface type, "value" for any other).
Methods ==
    {[name |-> "Ping", params |-> <<>>, returns |-> <<>>],
     [name |-> "Check", params |-> <<>>, returns |-> <<"error">>],
     [name |-> "Echo", params |-> <<"string">>, returns |-> <<"value">>],
     [name |-> "Add", params |-> <<"int", "int">>, returns |-> <<"value", "error">>],
     [name |-> "Pair", params |-> <<>>, returns |-> <<"value", "value">>]}

\* What the "data" key of a decoded request can hold: nil, a value that is no
\* array, or an array whose elements are integers, strings or nil.
Elements == {"int", "string", "nil"}
Arrays == {<<>>} \cup {<<a>> : a \in Elements} \cup {<<a, b>> : a, b \in Elements}
DataValues ==
    {[kind |-> "nil", elems |-> <<>>], [kind |-> "map", elems |-> <<>>]}
        \cup {[kind |-> "array", elems |-> a] : a \in Arrays}

\* reflect.ValueOf(arg).CanConvert(paramType) for an arg that is not nil: an
\* integer converts to int and to string, a string only to string.
CanConvert(elem, paramType) == elem = paramType \/ (elem = "int" /\ paramType = "string")

\* The argument loop: the first element that is nil panics inside CanConvert
\* (reflect.ValueOf(nil) is the zero Value), the first that does not convert
\* returns the error; "ok" when every element was converted.
RECURSIVE ConvertArgs(_, _)
ConvertArgs(elems, params) ==
    IF elems = <<>> THEN "ok"
    ELSE IF Head(elems) = "nil" THEN "panic"
    ELSE IF ~CanConvert(Head(elems), Head(params)) THEN "error"
    ELSE ConvertArgs(Tail(elems), Tail(params))

\* The handler closure made for a method: "invoked" when it reached
\* method.Func.Call with the right arguments, "error" when it returned an
\* error before the call, "panic" when reflect panicked (Call with too few
\* input arguments, or CanConvert on the zero Value).
ServiceHandler(method, data) ==
    IF data.kind = "nil"
    THEN (IF Len(method.params) = 0 THEN "invoked" ELSE "panic")
    ELSE IF data.kind = "array"
    THEN (IF Len(data.elems) # Len(method.params) THEN "error"
          ELSE IF ConvertArgs(data.elems, method.params) = "ok" THEN "invoked"
          ELSE ConvertArgs(data.elems, method.params))
    ELSE "error"

\* The values of a call's results: nil, an error, or the value a method
\* returned as its n-th result.
NilValue == <<"nil", 0>>
ErrValue == <<"err", 0>>

\* What method.Func.Call can return for a method: a value for each result
\* that is no error, and nil or an error for each result of the error type.
RECURSIVE CallResults(_, _)
CallResults(returns, n) ==
    IF n > Len(returns) THEN {<<>>}
    ELSE LET here == IF returns[n] = "error" THEN {NilValue, ErrValue} ELSE {<<"ret", n>>}
         IN {<<r>> \o rest : r \in here, rest \in CallResults(returns, n + 1)}

\* Steps 3 and 4 of the handler: a non-nil error as the last result is the
\* handler's error; otherwise results[0] when there are two results or more,
\* otherwise nil.
HandlerReturn(results) ==
    IF Len(results) > 0 /\ results[Len(results)] = ErrValue
    THEN [value |-> NilValue, err |-> TRUE]
    ELSE IF Len(results) > 1
    THEN [value |-> results[1], err |-> FALSE]
    ELSE [value |-> NilValue, err |-> FALSE]

\* The guest sends a request for a bound method; the receive loop starts
\* processCommand for it.
ServiceRequest(method, data) ==
    /\ ~panicked
    /\ svcCalls' = Append(svcCalls,
          [method |-> method, data |-> data, pc |-> "handler",
           outcome |-> "none", results |-> <<>>,
           ret |-> [value |-> NilValue, err |-> FALSE],
           response |-> "none", result |-> NilValue])
    /\ UNCHANGED <<panicked, notSvc>>

\* processCommand: response, err = handler(data, requestID). Nothing recovers a
\* panic of the handler.
ServiceCall(k) ==
    /\ ~panicked
    /\ svcCalls[k].pc = "handler"
    /\ LET o == ServiceHandler(svcCalls[k].method, svcCalls[k].data)
       IN /\ \E results \in (IF o = "invoked"
                              THEN CallResults(svcCalls[k].method.returns, 1)
                              ELSE {<<>>}) :
               svcCalls' = [svcCalls EXCEPT
                   ![k].outcome = o,
                   ![k].results = results,
                   ![k].ret = IF o = "invoked" THEN HandlerReturn(results)
                              ELSE [value |-> NilValue, err |-> TRUE],
                   ![k].pc = IF o = "panic" THEN "dead" ELSE "respond"]
          /\ panicked' = (o = "panic")
    /\ UNCHANGED <<notSvc, events>>

\* processCommand: responseObj["error"] or responseObj["result"], sent.
ServiceRespond(k) ==
    /\ ~panicked
    /\ svcCalls[k].pc = "respond"
    /\ svcCalls' = [svcCalls EXCEPT ![k].pc = "done",
          ![k].response = IF svcCalls[k].ret.err THEN "error" ELSE "result",
          ![k].result = IF svcCalls[k].ret.err THEN NilValue ELSE svcCalls[k].ret.value]
    /\ UNCHANGED <<panicked, notSvc, events>>

\* Guest requests for the methods of the service struct.
NextService ==
    \/ Event(MaxServiceCalls)
         /\ \E method \in Methods, data \in DataValues : ServiceRequest(method, data)
    \/ \E k \in DOMAIN svcCalls : ServiceCall(k)
    \/ \E k \in DOMAIN svcCalls : ServiceRespond(k)

SpecService == Init /\ [][NextService]_vars

\* --------------------------------------------------- the fluent call
\* Acts of the environment in one run of SpecFluent.
MaxFluentEvents == 3

\* The durations given to WithTimeout, in milliseconds.
Durations == {0, 500, 1000, 1500}

\* int(mc.timeout.Seconds()): whole seconds, the fraction cut off.
Seconds(d) == d \div 1000

\* methodCall.Call: SendCommand with int(mc.timeout.Seconds()) when the
\* timeout is positive, with 0 otherwise.
TimeoutSeconds(d) == IF d > 0 THEN Seconds(d) ELSE 0

\* On(m).WithTimeout(d).Call(), up to SendCommand's entry; the duration is kept
\* with the index of the call it made.
MethodCall(d) ==
    /\ Event(MaxFluentEvents)
    /\ SendCommand("m", TRUE, TimeoutSeconds(d))
    /\ applied' = Append(applied,
          [fn |-> "WithTimeout", arg |-> d, ret |-> Len(calls) + 1])
    /\ UNCHANGED <<procVars, replVars, frameVars, svcVars, poolVars, launchVars>>

\* Fluent calls with any timeout, the guest answering or staying silent.
NextFluent ==
    \/ \E d \in Durations : MethodCall(d)
    \/ QueueEvent(MaxFluentEvents) /\ GuestResponds
    \/ CallerStep
    \/ LoopStep

SpecFluent == Init /\ [][NextFluent]_vars

\* Go schedules every runnable goroutine, and timers fire.
FairSpecFluent == SpecFluent /\ WF_vars(CallerStep \/ LoopStep)

\* ------------------------------------------------------ construction
\* Acts of the guest in one run of SpecNew.
MaxNewEvents == 2

\* NewQueueProcess after Start() and go jq.messageLoop(), before
\* discoverMethods.
InitNew ==
    /\ nextID = 1
    /\ calls = <<>>
    /\ Started

\* What a reply to __get_methods__ can hold: no "methods" map, a map of
\* well-formed method infos, a map whose info is no map, an info without a
\* string "doc", a parameter without a string "name" or a bool "required".
MethodInfos == {"none", "ok", "notmap", "nodoc", "badparam"}

\* discoverMethods once SendCommand has returned response: the error it
\* returns and the names it has put in jq.methodCache, or the panic of an
\* unchecked type assertion.
ParseMethods(info) ==
    IF info = "none" THEN [ret |-> "error", cache |-> {}]
    ELSE IF info = "ok" THEN [ret |-> "nil", cache |-> {"m"}]
    ELSE IF info = "notmap" THEN [ret |-> "nil", cache |-> {}]
    ELSE [ret |-> "panic", cache |-> {}]

\* discoverMethods: jq.SendCommand("__get_methods__", nil, 0, true)
DiscoverSend ==
    /\ calls = <<>>
    /\ SendCommand("__get_methods__", TRUE, 0)
    /\ UNCHANGED <<events, notQueue>>

\* The guest answers a request it has read with some method information.
GuestDescribes(info) ==
    \E k \in DOMAIN pipeOut :
        /\ pipeOut[k].kind = "body"
        /\ GuestWrites(Message(sendOrder[pipeOut[k].ref].request_id, NoCmd,
                               "result", <<"methods", info>>))

\* discoverMethods after SendCommand, and NewQueueProcess' return: the error
\* is printed as a warning, jq is returned.
DiscoverReturn ==
    /\ calls # <<>>
    /\ calls[1].pc = "done"
    /\ applied = <<>>
    /\ LET r == IF calls[1].result.kind = "response"
                THEN ParseMethods(calls[1].result.msg.val[2])
                ELSE [ret |-> "error", cache |-> {}]
       IN /\ applied' = <<[fn |-> "discoverMethods", arg |-> calls[1].result.kind,
                           ret |-> r]>>
          /\ panicked' = (r.ret = "panic")
    /\ UNCHANGED <<queueVars, events, procVars, replVars, frameVars, svcCalls, poolVars,
                   launchVars>>

\* The steps of NewQueueProcess itself; discoverMethods' SendCommand has no
\* timer to run.
NewStep ==
    \/ DiscoverSend
    \/ \E i \in DOMAIN calls : InsertPending(i)
    \/ \E i \in DOMAIN calls : SendHeader(i)
    \/ \E i \in DOMAIN calls : SendPayload(i)
    \/ \E i \in DOMAIN calls : ReceiveResponse(i)
    \/ DiscoverReturn

\* Construction, with a guest that describes its methods in any way, exits,
\* or does nothing.
NextNew ==
    \/ NewStep
    \/ QueueEvent(MaxNewEvents) /\ \E info \in MethodInfos : GuestDescribes(info)
    \/ QueueEvent(MaxNewEvents) /\ GuestExits
    \/ LoopStep

SpecNew == InitNew /\ [][NextNew]_vars

\* Go schedules every runnable goroutine.
FairSpecNew == SpecNew /\ WF_vars(NewStep \/ LoopStep)

\* ------------------------------------------------------ inbound frames
\* Acts of the environment in one run of SpecInbound.
MaxInboundEvents == 3

\* A request ID prefix that is neither the host's nor the guest's.
OtherPrefix == "job-"

\* The request IDs a frame of the guest can carry: none, one of its own, one
\* of the host's (pending or not), one with another prefix.
InboundIDs ==
    {NoID, <<PyPrefix, 1>>, <<OtherPrefix, 1>>} \cup {FormatRequestID(n) : n \in 2..3}

\* The guest writes a frame with any request ID, with or without a command.
GuestFrame(id, cmd) ==
    GuestWrites(Message(id, cmd, IF cmd = NoCmd THEN "result" ELSE "none", NoVal))

\* Callers waiting for responses, the guest writing frames of every kind.
NextInbound ==
    \/ QueueEvent(MaxInboundEvents) /\ SendCommand("m", TRUE, 0)
    \/ \E i \in DOMAIN calls : InsertPending(i)
    \/ \E i \in DOMAIN calls : SendHeader(i)
    \/ \E i \in DOMAIN calls : SendPayload(i)
    \/ \E i \in DOMAIN calls : ReceiveResponse(i)
    \/ QueueEvent(MaxInboundEvents)
         /\ \E id \in InboundIDs, cmd \in {NoCmd} \cup Commands : GuestFrame(id, cmd)
    \/ LoopStep

SpecInbound == Init /\ [][NextInbound]_vars

\* ------------------------------------------------------ a handler panics
\* Acts of the environment in one run of SpecPanic.
MaxPanicEvents == 4

\* The host program runs: no goroutine has panicked.
Alive == ~panicked

\* Guest requests served by handlers of which one panics.
NextPanic ==
    \/ Alive /\ QueueEvent(MaxPanicEvents) /\ GuestRequests
    \/ Alive /\ QueueEvent(MaxPanicEvents)
         /\ \E cmd \in Commands, h \in {"h1", PanicHandler} : RegisterHandler(cmd, h)
    \/ Alive /\ LoopStep
    \/ Alive /\ \E w \in DOMAIN workers : ProcessCommand(w)
    \/ Alive /\ \E w \in DOMAIN workers : HandlerPanics(w)
    \/ Alive /\ \E w \in DOMAIN workers : WorkerSendHeader(w)
    \/ Alive /\ \E w \in DOMAIN workers : WorkerSendPayload(w)

SpecPanic == Init /\ [][NextPanic]_vars

\* The receive loops and the workers are goroutines the Go scheduler runs.
FairSpecPanic ==
    /\ SpecPanic
    /\ WF_vars(Alive /\ LoopStep)
    /\ WF_vars(Alive /\ \E w \in DOMAIN workers :
                   ProcessCommand(w) \/ WorkerSendHeader(w) \/ WorkerSendPayload(w))

\* ------------------------------------------- process launch, status pipe
\* Lines the child writes to the status pipe in one run.
MaxStatusLines == 3

\* Chunks the child writes to the data pipe in one run.
MaxData == 1

\* The lines a child can write to the status pipe:
\*   "garbage"        not JSON
\*   "ready"          {"type": "status", "status": "ready"}
\*   "exit"           {"type": "status", "status": "exit"}
\*   "message-exit"   {"type": "status", "message": "exit"}
\*   "exception"      {"type": "exception", "exception": "ValueError", ...}
\*   "exception-bad"  {"type": "exception", "message": 5}
\*   "log"            {"type": "log"}
StatusTexts ==
    {"garbage", "ready", "exit", "message-exit", "exception", "exception-bad", "log"}

\* json.Unmarshal([]byte(text), &status): the error, and the fields of the map.
Unmarshal(text) ==
    CASE text = "garbage" -> [err |-> TRUE, type |-> "", status |-> "", message |-> ""]
      [] text = "ready" ->
           [err |-> FALSE, type |-> "status", status |-> "ready", message |-> ""]
      [] text = "exit" ->
           [err |-> FALSE, type |-> "status", status |-> "exit", message |-> ""]
      [] text = "message-exit" ->
           [err |-> FALSE, type |-> "status", status |-> "", message |-> "exit"]
      [] text \in {"exception", "exception-bad"} ->
           [err |-> FALSE, type |-> "exception", status |-> "", message |-> text]
      [] OTHER -> [err |-> FALSE, type |-> "log", status |-> "", message |-> ""]

\* NewPythonExceptionFromJSON(statusScanner.Bytes()) returns no error.
ExceptionDecodes(text) == text = "exception"

\* What the status goroutine does with a scanned line, and whether the loop
\* goes on: a line that is not JSON breaks the loop; a status is sent on schan
\* and breaks the loop if status["status"] is "exit"; an exception is sent on
\* echan if it decodes; anything else is logged.
OnStatusLine(text) ==
    LET status == Unmarshal(text) IN
    IF status.err THEN [did |-> "break", next |-> "badjson"]
    ELSE IF status.type = "status"
      THEN [did |-> "status", next |-> IF status.status = "exit" THEN "exit" ELSE "scan"]
    ELSE IF status.type = "exception" /\ ExceptionDecodes(text)
      THEN [did |-> "exception", next |-> "scan"]
    ELSE [did |-> "skipped", next |-> "scan"]

\* One iteration of the status goroutine. statusScanner.Scan() returns a line,
\* or false once the pipe is empty and no writer end is open; the sends on
\* schan and echan wait for room. When the goroutine ends, its deferred
\* status_writer_primary.Close() runs.
StatusScan ==
    /\ spc = "scan"
    /\ IF statusPipe # <<>>
         THEN LET text == Head(statusPipe)
                  o == OnStatusLine(text) IN
              /\ o.did = "status" => Len(schan) < ChanCap
              /\ o.did = "exception" => Len(echan) < ChanCap
              /\ statusPipe' = Tail(statusPipe)
              /\ schan' = IF o.did = "status" THEN Append(schan, text) ELSE schan
              /\ echan' = IF o.did = "exception" THEN Append(echan, text) ELSE echan
              /\ slog' = Append(slog, [text |-> text, did |-> o.did])
              /\ spc' = o.next
         ELSE /\ fdOpen["status_w"] = {}
              /\ spc' = "eof"
              /\ UNCHANGED <<statusPipe, schan, echan, slog>>
    /\ fdOpen' = IF spc' = "scan" THEN fdOpen
                 ELSE [fdOpen EXCEPT !["status_w"] = @ \ {"host"}]
    /\ UNCHANGED <<cmdState, feeders, dataPipe, dataLoop, events, notLaunch>>

\* The program takes an event from pp.StatusChan or pp.ExceptionChan.
TakeStatus ==
    /\ schan # <<>>
    /\ schan' = Tail(schan)
    /\ UNCHANGED <<fdOpen, cmdState, feeders, dataPipe, dataLoop, statusPipe, spc,
                   echan, slog, events, notLaunch>>

TakeException ==
    /\ echan # <<>>
    /\ echan' = Tail(echan)
    /\ UNCHANGED <<fdOpen, cmdState, feeders, dataPipe, dataLoop, statusPipe, spc,
                   schan, slog, events, notLaunch>>

\* A read of PipeIn by the host: a chunk if there is one, else io.EOF once no
\* writer end of the pipe is open, else it waits.
ReadData ==
    /\ dataLoop[1] = "reading"
    /\ IF dataLoop[2] < dataPipe
         THEN dataLoop' = <<"reading", dataLoop[2] + 1>>
         ELSE fdOpen["pipein_w"] = {} /\ dataLoop' = <<"eof", dataLoop[2]>>
    /\ UNCHANGED <<fdOpen, cmdState, feeders, dataPipe, statusPipe, spc, schan, echan, slog,
                   events, notLaunch>>

\* The goroutines that write the secondary bootstrap script and the program
\* data, each closing its writer when done.
Feed(f) ==
    /\ feeders[f] = "write"
    /\ feeders' = [feeders EXCEPT ![f] = "done"]
    /\ fdOpen' = [fdOpen EXCEPT ![f] = @ \ {"host"}]
    /\ UNCHANGED <<cmdState, dataPipe, dataLoop, statusPipe, spc, schan, echan, slog,
                   events, notLaunch>>

\* The child writes a line to the status pipe, a chunk to the data pipe.
ChildWritesStatus(text) ==
    /\ cmdState = "started"
    /\ Len(slog) + Len(statusPipe) < MaxStatusLines
    /\ statusPipe' = Append(statusPipe, text)
    /\ UNCHANGED <<fdOpen, cmdState, feeders, dataPipe, dataLoop, spc, schan, echan,
                   slog, events, notLaunch>>

ChildWritesData ==
    /\ cmdState = "started"
    /\ dataPipe < MaxData
    /\ dataPipe' = dataPipe + 1
    /\ UNCHANGED <<fdOpen, cmdState, feeders, dataLoop, statusPipe, spc, schan, echan,
                   slog, events, notLaunch>>

\* The child exits: the kernel closes every descriptor it held.
ChildProcessExits ==
    /\ cmdState = "started"
    /\ cmdState' = "exited"
    /\ fdOpen' = [e \in PipeEnds |-> fdOpen[e] \ {"child"}]
    /\ UNCHANGED <<feeders, dataPipe, dataLoop, statusPipe, spc, schan, echan, slog,
                   events, notLaunch>>

NextLaunch ==
    \/ \E f \in DOMAIN feeders : Feed(f)
    \/ \E text \in StatusTexts : ChildWritesStatus(text)
    \/ ChildWritesData
    \/ ChildProcessExits
    \/ ReadData
    \/ StatusScan
    \/ TakeStatus
    \/ TakeException

SpecLaunch == Init /\ [][NextLaunch]_vars

\* The readers are goroutines the Go scheduler runs, and the program drains
\* the two channels.
FairSpecLaunch ==
    /\ SpecLaunch
    /\ WF_vars(ReadData)
    /\ WF_vars(StatusScan)
    /\ WF_vars(TakeStatus \/ TakeException)

\* ------------------------------------------------ Call's return value
\* Applications of a function in one run of its specification.
MaxApplied == 2

\* One application of a function to an argument.
Apply(fn, arg, ret) ==
    /\ Event(MaxApplied)
    /\ applied' = Append(applied, [fn |-> fn, arg |-> arg, ret |-> ret])
    /\ UNCHANGED notApplied

\* Values of a decoded response: a string, a number, nil or a nested map.
StringValue(n) == <<"string", n>>
IntValue(n) == <<"int", n>>
MapValue(n) == <<"map", n>>
IsString(v) == v[1] = "string"

\* The responses SendCommand can return to Call: maps that hold the
\* request_id they were matched by and any of "error", "result" and two keys
\* of the guest's own.
ResponseKeys == {"error", "result", "value", "status"}
ValuesOf(key) ==
    IF key = "error" THEN {StringValue(1), MapValue(1)}
    ELSE IF key = "result" THEN {NilValue, IntValue(1)}
    ELSE IF key = "value" THEN {IntValue(2)}
    ELSE {StringValue(2)}
Responses ==
    UNION {{[k \in keys \cup {"request_id"} |->
                IF k = "request_id" THEN StringValue(0) ELSE f[k]] :
              f \in {g \in [keys -> UNION {ValuesOf(k) : k \in keys}] :
                       \A k \in keys : g[k] \in ValuesOf(k)}} :
           keys \in SUBSET ResponseKeys}

\* delete(response, key)
Delete(response, key) == [k \in DOMAIN response \ {key} |-> response[k]]
EmptyMap == [k \in {} |-> NilValue]

\* What Call returns for the one key left: its value when the response has
\* exactly one key besides request_id, the whole map otherwise.
Unwrap_Never(rest) == [kind |-> "map", v |-> NilValue, m |-> rest, err |-> FALSE]
Unwrap(rest) ==
    IF Cardinality(DOMAIN rest) = 1
    THEN [kind |-> "value", v |-> rest[CHOOSE k \in DOMAIN rest : TRUE],
          m |-> EmptyMap, err |-> FALSE]
    ELSE [kind |-> "map", v |-> NilValue, m |-> rest, err |-> FALSE]

\* Call, after SendCommand returned response without an error.
Call(response) ==
    IF "error" \in DOMAIN response /\ IsString(response["error"])
    THEN [kind |-> "value", v |-> NilValue, m |-> EmptyMap, err |-> TRUE]
    ELSE IF "result" \in DOMAIN response
    THEN [kind |-> "value", v |-> response["result"], m |-> EmptyMap, err |-> FALSE]
    ELSE Unwrap(Delete(response, "request_id"))

\* Calls that received a response.
NextCallReturn == \E response \in Responses : Apply("Call", response, Call(response))

SpecCallReturn == Init /\ [][NextCallReturn]_vars

\* ------------------------------------------------------ PythonException
\* The longest chain of causes of an exception, the exception itself counted.
MaxDepth == 3

\* One exception of a chain: its class name, message and traceback.
Levels ==
    {[exception |-> "ApplicationError", message |-> "application failed", traceback |-> "TB1"],
     [exception |-> "DatabaseError", message |-> "database failed", traceback |-> "TB2"],
     [exception |-> "DatabaseError", message |-> "connection refused", traceback |-> "TB3"]}

\* A PythonException with its Cause pointers, as the sequence of its levels:
\* Cause is nil at the last one.
Chains == UNION {[1..n -> Levels] : n \in 1..MaxDepth}

\* The tokens of a JSON text.
LBrace == <<"{", "", "">>
RBrace == <<"}", "", "">>
Field(key, value) == <<"field", key, value>>
CauseKey == <<"key", "cause", "">>

\* The JSON the guest sends for an exception: "cause" only when there is one.
RECURSIVE Json(_)
Json(chain) ==
    <<LBrace, Field("exception", chain[1].exception),
      Field("message", chain[1].message), Field("traceback", chain[1].traceback)>>
        \o (IF Len(chain) > 1 THEN <<CauseKey>> \o Json(Tail(chain)) ELSE <<>>)
        \o <<RBrace>>

\* var pyException PythonException: empty strings, Cause nil.
ZeroException == [exception |-> "", message |-> "", traceback |-> "", cause |-> <<>>]

\* json.Unmarshal into a PythonException, from the token after the opening
\* brace: each field is stored under its json tag, the object under "cause"
\* is decoded into a new PythonException.
RECURSIVE Decode(_, _, _)
Decode(tokens, i, e) ==
    IF tokens[i] = RBrace
    THEN [chain |-> <<[exception |-> e.exception, message |-> e.message,
                       traceback |-> e.traceback]>> \o e.cause,
          next |-> i + 1]
    ELSE IF tokens[i][1] = "field"
    THEN Decode(tokens, i + 1, [e EXCEPT ![tokens[i][2]] = tokens[i][3]])
    ELSE LET cause == Decode(tokens, i + 2, ZeroException)
         IN Decode(tokens, cause.next, [e EXCEPT !.cause = cause.chain])

\* NewPythonExceptionFromJSON
NewPythonExceptionFromJSON(data) == Decode(data, 2, ZeroException).chain

\* The text between an exception and its cause.
CausedBy == "\n\nCaused by:\n"

\* ToString that leaves the cause out.
ExceptionToString_NoCause(e) == <<e[1].exception, ": ", e[1].message, "\n", e[1].traceback>>

\* ToString: "%s: %s\n%s" of the exception, then "\n\nCaused by:\n" and the
\* cause's ToString when Cause is not nil.
RECURSIVE ExceptionToString(_)
ExceptionToString(e) ==
    <<e[1].exception, ": ", e[1].message, "\n", e[1].traceback>>
        \o (IF Len(e) > 1 THEN <<CausedBy>> \o ExceptionToString(Tail(e)) ELSE <<>>)

\* An exception arrives as JSON and is parsed.
ParseException ==
    \E chain \in Chains :
        Apply("NewPythonExceptionFromJSON", [chain |-> chain, data |-> Json(chain)],
              NewPythonExceptionFromJSON(Json(chain)))

\* ToString of an exception that was parsed.
FormatException ==
    \E n \in DOMAIN applied :
        /\ applied[n].fn = "NewPythonExceptionFromJSON"
        /\ Apply("ToString", applied[n].ret, ExceptionToString(applied[n].ret))

NextException ==
    \/ ParseException
    \/ FormatException

SpecException == Init /\ [][NextException]_vars

\* ----------------------------------------------------------- BufferPool
\* Calls of Get, and buffers made by the callers, in one run of SpecPool.
MaxPoolEvents == 3

\* The sizes of the buffers a caller makes itself, the lengths it shortens a
\* buffer to and the offsets it advances one by.
OwnSizes == {512, 2 * PoolBufSize}
Lengths == {512}
Offsets == {PoolBufSize}

\* A goroutine calls Get.
GetCall(g) ==
    /\ Event(MaxPoolEvents)
    /\ bpc[g] = "idle"
    /\ held[g] = NoBuffer
    /\ bpc' = [bpc EXCEPT ![g] = "get"]
    /\ UNCHANGED <<pool, held, nextBuf, bplog, notPool>>

\* Get's select: case buf := <-bp.pool
GetFromPool(g) ==
    /\ bpc[g] = "get"
    /\ pool # <<>>
    /\ pool' = Tail(pool)
    /\ held' = [held EXCEPT ![g] = Head(pool)]
    /\ bplog' = Append(bplog, [op |-> "Get", buf |-> Head(pool), before |-> pool,
                               after |-> Tail(pool)])
    /\ bpc' = [bpc EXCEPT ![g] = "idle"]
    /\ UNCHANGED <<nextBuf, events, notPool>>

\* A select without a default case: nothing to take when no case is ready.
SelectDefault_None(ready) == FALSE

\* select { case ...: default: }: the default case is taken when the channel
\* operation is not ready.
SelectDefault(ready) == ~ready

\* Get's select: default: return make([]byte, bp.bufSize)
GetAllocates(g) ==
    /\ bpc[g] = "get"
    /\ SelectDefault(pool # <<>>)
    /\ held' = [held EXCEPT ![g] = Buffer(nextBuf, PoolBufSize, PoolBufSize)]
    /\ nextBuf' = nextBuf + 1
    /\ bplog' = Append(bplog, [op |-> "Get",
                               buf |-> Buffer(nextBuf, PoolBufSize, PoolBufSize),
                               before |-> pool, after |-> pool])
    /\ bpc' = [bpc EXCEPT ![g] = "idle"]
    /\ UNCHANGED <<pool, events, notPool>>

\* The caller makes a buffer of its own: make([]byte, size).
MakeBuffer(g, size) ==
    /\ Event(MaxPoolEvents)
    /\ bpc[g] = "idle"
    /\ held[g] = NoBuffer
    /\ held' = [held EXCEPT ![g] = Buffer(nextBuf, size, size)]
    /\ nextBuf' = nextBuf + 1
    /\ UNCHANGED <<pool, bpc, bplog, notPool>>

\* The caller reslices what it holds: buf[:n] keeps the capacity.
Shorten(g, n) ==
    /\ bpc[g] = "idle"
    /\ held[g] # NoBuffer
    /\ n < held[g].len
    /\ held' = [held EXCEPT ![g].len = n]
    /\ UNCHANGED <<pool, bpc, nextBuf, bplog, events, notPool>>

\* The caller reslices what it holds: buf[k:] takes k off length and capacity.
Advance(g, k) ==
    /\ bpc[g] = "idle"
    /\ held[g] # NoBuffer
    /\ 0 < k
    /\ k <= held[g].len
    /\ held' = [held EXCEPT ![g].len = held[g].len - k, ![g].cap = held[g].cap - k]
    /\ UNCHANGED <<pool, bpc, nextBuf, bplog, events, notPool>>

\* A goroutine calls Put with the slice it holds.
PutCall(g) ==
    /\ bpc[g] = "idle"
    /\ held[g] # NoBuffer
    /\ bpc' = [bpc EXCEPT ![g] = "put"]
    /\ UNCHANGED <<pool, held, nextBuf, bplog, events, notPool>>

\* Put with no test of the capacity.
WrongSize_Never(buf) == FALSE

\* if cap(buf) != bp.bufSize { return }
WrongSize(buf) == buf.cap # PoolBufSize

\* Put's send of the slice as it is.
PutSlice_AsIs(buf) == buf

\* buf[:bp.bufSize]
PutSlice(buf) == [buf EXCEPT !.len = PoolBufSize]

\* The channel send is ready whatever the channel holds.
PoolHasRoom_Always == TRUE

\* bp.pool <- ... is ready: the channel holds fewer buffers than its capacity.
PoolHasRoom == Len(pool) < PoolCount

\* Put's select: case bp.pool <- buf[:bp.bufSize]
PutToPool(g) ==
    /\ bpc[g] = "put"
    /\ ~WrongSize(held[g])
    /\ PoolHasRoom
    /\ pool' = Append(pool, PutSlice(held[g]))
    /\ bplog' = Append(bplog, [op |-> "Put", buf |-> held[g], before |-> pool,
                               after |-> Append(pool, PutSlice(held[g]))])
    /\ held' = [held EXCEPT ![g] = NoBuffer]
    /\ bpc' = [bpc EXCEPT ![g] = "idle"]
    /\ UNCHANGED <<nextBuf, events, notPool>>

\* Put: if cap(buf) != bp.bufSize { return }, and the select's default.
PutDiscards(g) ==
    /\ bpc[g] = "put"
    /\ WrongSize(held[g]) \/ SelectDefault(PoolHasRoom)
    /\ bplog' = Append(bplog, [op |-> "Put", buf |-> held[g], before |-> pool,
                               after |-> pool])
    /\ held' = [held EXCEPT ![g] = NoBuffer]
    /\ bpc' = [bpc EXCEPT ![g] = "idle"]
    /\ UNCHANGED <<pool, nextBuf, events, notPool>>

\* The steps inside Get and Put.
PoolStep ==
    \/ \E g \in Goroutines : GetFromPool(g)
    \/ \E g \in Goroutines : GetAllocates(g)
    \/ \E g \in Goroutines : PutToPool(g)
    \/ \E g \in Goroutines : PutDiscards(g)

\* Goroutines that get, make, reslice and put buffers.
NextPool ==
    \/ \E g \in Goroutines : GetCall(g)
    \/ \E g \in Goroutines, size \in OwnSizes : MakeBuffer(g, size)
    \/ \E g \in Goroutines, n \in Lengths : Shorten(g, n)
    \/ \E g \in Goroutines, k \in Offsets : Advance(g, k)
    \/ \E g \in Goroutines : PutCall(g)
    \/ PoolStep

SpecPool == Init /\ [][NextPool]_vars

\* Go schedules every runnable goroutine.
FairSpecPool == SpecPool /\ WF_vars(PoolStep)

\* ------------------------------------------- the code written to the guest
\* The longest code string submitted.
MaxCodeLen == 4

\* The bytes of a code string: a letter, a space, '\n' and '\r'.
CodeBytes == {97, 32, LF, CR}

RECURSIVE Strings(_)
Strings(n) ==
    IF n = 0 THEN {<<>>}
    ELSE Strings(n - 1) \cup {Append(str, b) : str \in Strings(n - 1), b \in CodeBytes}

CodeStrings == Strings(MaxCodeLen)

\* The cutset " \t\n\r".
Whitespace == {32, 9, LF, CR}

\* strings.ReplaceAll(str, old, new): the non-overlapping occurrences of old,
\* found from the left in one pass, replaced by new.
RECURSIVE ReplaceAll(_, _, _)
ReplaceAll(str, old, new) ==
    IF Len(str) < Len(old) THEN str
    ELSE IF SubSeq(str, 1, Len(old)) = old
      THEN new \o ReplaceAll(SubSeq(str, Len(old) + 1, Len(str)), old, new)
    ELSE <<Head(str)>> \o ReplaceAll(Tail(str), old, new)

\* What Execute writes for code: "\r\n" replaced by "\n", then "\n\n" by "\n",
\* the end trimmed, DELIMITER appended.
ExecuteCode(code) ==
    TrimRight(ReplaceAll(ReplaceAll(code, <<CR, LF>>, <<LF>>), <<LF, LF>>, <<LF>>),
              Whitespace) \o DELIMITER

\* What ExecuteWithTimeout writes for code: the end trimmed, DELIMITER appended.
ExecuteWithTimeoutCode(code) == TrimRight(code, Whitespace) \o DELIMITER

\* Execute and ExecuteWithTimeout called with any code strings.
NextCode ==
    \/ \E code \in CodeStrings : Apply("Execute", code, ExecuteCode(code))
    \/ \E code \in CodeStrings :
           Apply("ExecuteWithTimeout", code, ExecuteWithTimeoutCode(code))

SpecCode == Init /\ [][NextCode]_vars

\* ------------------------------------------------------------ properties
\* Indices a SendCommand invocation can have in one run.
CallIds == 1..(MaxEvents + 1)

\* C1: with several calls in flight, whatever the order of the guest's answers,
\* a response frame is only ever put in the channel of, and returned by, the
\* call whose generated request ID equals the frame's request_id.
C1_NoCrossTalk ==
    \A i \in DOMAIN calls :
        /\ calls[i].result.kind = "response"
             => calls[i].result.msg.request_id = calls[i].requestID
        /\ \A n \in DOMAIN calls[i].chan :
             calls[i].chan[n].request_id = calls[i].requestID

\* Two calls were pending together, the guest answered the later one first, and
\* both have returned a response.
C1_Witness ==
    \E i, j \in DOMAIN calls :
        /\ 1 < i /\ i < j
        /\ calls[i].result.kind = "response" /\ calls[j].result.kind = "response"
        /\ \E a, b \in DOMAIN gframes :
            /\ a < b
            /\ gframes[a].request_id = calls[j].requestID
            /\ gframes[b].request_id = calls[i].requestID
            /\ fate[a] = "delivered" /\ fate[b] = "delivered"

\* C2: the n-th request ID generated since construction is "req-" followed by
\* n: IDs start at 1, increase by one per invocation, and no two invocations,
\* however interleaved, get the same ID.
C2_RequestIDsIncrease ==
    /\ \A i \in DOMAIN calls : calls[i].requestID = <<"req-", i>>
    /\ \A i, j \in DOMAIN calls : i # j => calls[i].requestID # calls[j].requestID
    /\ nextID = Len(calls) + 1

\* Two invocations have their IDs and neither has got further than that, after
\* the ID discoverMethods took.
C2_Witness ==
    \E i, j \in DOMAIN calls :
        /\ 1 < i /\ i < j
        /\ calls[i].pc \in {"register", "send"}
        /\ calls[j].pc \in {"register", "send"}

C4_LateResponseDiscarded ==
    \A i \in DOMAIN calls :
        calls[i].result.kind = "timeout" =>
            /\ calls[i].requestID \notin DOMAIN responseMap
            /\ \A k \in DOMAIN gframes :
                 (k > calls[i].framesAtReturn
                    /\ gframes[k].request_id = calls[i].requestID)
                   => fate[k] \in {"inflight", "garbled", "discarded"}
            /\ \A j \in DOMAIN calls :
                 j # i => /\ calls[j].result.msg.request_id # calls[i].requestID
                          /\ \A n \in DOMAIN calls[j].chan :
                               calls[j].chan[n].request_id # calls[i].requestID
            /\ \A l \in Loops : lpc[l] # "sendblocked"
            /\ mutex # CallHolder(i)

\* A call timed out, the answer the guest wrote afterwards was discarded, and
\* a call issued after that got its own response.
C4_Witness ==
    \E i, j \in DOMAIN calls :
        /\ i < j
        /\ calls[i].result.kind = "timeout"
        /\ \E k \in DOMAIN gframes :
            /\ k > calls[i].framesAtReturn
            /\ gframes[k].request_id = calls[i].requestID
            /\ fate[k] = "discarded"
        /\ calls[j].result.kind = "response"
        /\ calls[j].result.msg.request_id = calls[j].requestID

\* C5: once the guest's end of the transport is closed, every caller blocked
\* in its wait eventually returns.
C5_EOFReleasesWaiters ==
    \A i \in CallIds :
        (inEOF /\ i \in DOMAIN calls /\ calls[i].pc = "wait")
           ~> (i \in DOMAIN calls /\ calls[i].pc = "done")

\* C6: a SendCommand invoked after Close has run, or after the receive loops
\* have ended, inserts no pending entry, writes no frame and does not wait.
C6_ClosedChannelRejects ==
    \A i \in DOMAIN calls :
        (calls[i].late /\ calls[i].command = "m") =>
            /\ calls[i].requestID \notin DOMAIN responseMap
            /\ calls[i].sidx = 0
            /\ calls[i].pc # "wait"

\* How often a handler was invoked for worker w.
InvocationsOf(w) ==
    Cardinality({n \in DOMAIN invocations : invocations[n].worker = w})

\* The frames whose Send began with request_id id.
SendsOf(id) == {n \in DOMAIN sendOrder : sendOrder[n].request_id = id}

\* The handler the last RegisterHandler(cmd, _) among the first n registrations
\* gave, if any.
LastRegistered(cmd, n) ==
    LET S == {x \in 1..n : regLog[x].command = cmd} IN
    IF S = {} THEN NoHandler
              ELSE regLog[CHOOSE x \in S : \A y \in S : y <= x].handler

\* What processCommand owes the request of worker w: one invocation of the
\* handler it selected, and one response with the request's request_id that
\* carries "error" with the handler's error text if the handler failed and
\* "result" with its return value otherwise.
Answered(w) ==
    /\ workers[w].requestID = gframes[workers[w].frame].request_id
    /\ workers[w].pc = "lookup"
         => InvocationsOf(w) = 0 /\ SendsOf(workers[w].requestID) = {}
    /\ workers[w].pc # "lookup"
         => /\ InvocationsOf(w) = IF workers[w].handler = NoHandler THEN 0 ELSE 1
            /\ workers[w].handler # NoHandler
                 => workers[w].resp =
                      [request_id |-> workers[w].requestID,
                       command |-> NoCmd,
                       body |-> IF HandlerOutcome(workers[w].handler).ok
                                  THEN "result" ELSE "error",
                       val |-> HandlerOutcome(workers[w].handler).val]
    /\ workers[w].pc \in {"payload", "done"}
         => /\ SendsOf(workers[w].requestID) = {workers[w].sidx}
            /\ sendOrder[workers[w].sidx] = workers[w].resp
    /\ workers[w].sent
         => Cardinality({n \in DOMAIN pipeOut :
                           pipeOut[n] = Body(workers[w].sidx)}) = 1

\* C7: every guest frame with a command and a py- request ID that the receive
\* loops have taken off the pipe was handed to exactly one processCommand, which
\* invokes its handler once and sends one response with the same request_id,
\* "error" with the handler's error text if it failed, else "result".
C7_OneInvocationOneResponse ==
    \A k \in DOMAIN gframes :
        (HasPyPrefix(gframes[k].request_id) /\ gframes[k].command # NoCmd
           /\ fate[k] # "inflight")
          => /\ Cardinality({w \in DOMAIN workers : workers[w].frame = k}) = 1
             /\ \A w \in DOMAIN workers : workers[w].frame = k => Answered(w)

\* C8: the handler run for a request is the one registered for its command if
\* there is one, else the default handler if one is set; with neither, nothing
\* is invoked and the response carries the request's own ID and the error
\* "unknown command: <name>".
C8_HandlerSelection ==
    \A w \in DOMAIN workers :
        workers[w].pc # "lookup" =>
            /\ workers[w].registered # NoHandler
                 => workers[w].handler = workers[w].registered
            /\ (workers[w].registered = NoHandler /\ workers[w].default # NoHandler)
                 => workers[w].handler = workers[w].default
            /\ (workers[w].registered = NoHandler /\ workers[w].default = NoHandler)
                 => /\ workers[w].handler = NoHandler
                    /\ InvocationsOf(w) = 0
                    /\ workers[w].resp =
                         [request_id |-> gframes[workers[w].frame].request_id,
                          command |-> NoCmd, body |-> "error",
                          val |-> <<"unknown command: ",
                                    gframes[workers[w].frame].command>>]
                    /\ workers[w].pc = "done"
                         => /\ sendOrder[workers[w].sidx] = workers[w].resp
                            /\ \E n \in DOMAIN pipeOut :
                                 pipeOut[n] = Body(workers[w].sidx)
            /\ workers[w].handler # NoHandler
                 => \E n \in DOMAIN invocations :
                      invocations[n] = [worker |-> w, handler |-> workers[w].handler]

\* With a default handler set, a request for a registered command ran the
\* registered handler, not the default one.
C8_Witness ==
    \E w \in DOMAIN workers :
        /\ workers[w].pc = "done" /\ workers[w].sent
        /\ workers[w].registered # NoHandler
        /\ workers[w].default # NoHandler
        /\ workers[w].default # workers[w].registered
        /\ workers[w].handler = workers[w].registered

\* C9: the handler map holds, for every command, the handler of the most recent
\* RegisterHandler for it, and a request looked up after that registration is
\* served by that handler.
C9_LastRegistrationWins ==
    /\ \A c \in Commands :
         (IF c \in DOMAIN commandHandlers THEN commandHandlers[c] ELSE NoHandler)
           = LastRegistered(c, Len(regLog))
    /\ \A w \in DOMAIN workers :
         workers[w].pc # "lookup" =>
            /\ workers[w].registered
                 = LastRegistered(workers[w].command, workers[w].regsSeen)
            /\ workers[w].registered # NoHandler
                 => /\ workers[w].handler = workers[w].registered
                    /\ \E n \in DOMAIN invocations :
                         invocations[n] =
                           [worker |-> w, handler |-> workers[w].registered]

\* A command was registered twice with different handlers and a request that
\* came after both was served by the second.
C9_Witness ==
    \E w \in DOMAIN workers : \E a, b \in DOMAIN regLog :
        /\ workers[w].pc = "done"
        /\ a < b /\ b <= workers[w].regsSeen
        /\ regLog[a].command = workers[w].command
        /\ regLog[b].command = workers[w].command
        /\ regLog[a].handler # regLog[b].handler
        /\ workers[w].handler = regLog[b].handler

\* C10: on the outbound wire every length header is followed at once by its own
\* payload, frames appear in the order their senders took the mutex, and a
\* header without its payload is there only while its sender holds the mutex.
C10_FramesContiguous ==
    /\ \A n \in DOMAIN pipeOut :
        /\ pipeOut[n].kind = "body"
             => n > 1 /\ pipeOut[n - 1] = Hdr(pipeOut[n].ref)
        /\ (pipeOut[n].kind = "hdr" /\ n < Len(pipeOut))
             => pipeOut[n + 1] = Body(pipeOut[n].ref)
    /\ \A n, q \in DOMAIN pipeOut : n < q => pipeOut[n].ref <= pipeOut[q].ref
    /\ (pipeOut # <<>> /\ pipeOut[Len(pipeOut)].kind = "hdr") => mutex # Free

\* A caller has written its header and holds the mutex while a worker with a
\* response to send waits for it, after a frame already went out whole.
C10_Witness ==
    \E i \in DOMAIN calls : \E w \in DOMAIN workers :
        /\ calls[i].pc = "payload" /\ mutex = CallHolder(i)
        /\ workers[w].pc = "send"

\* C11: a SendCommand with waitForResponse=false never has an entry in the
\* response map and never waits: its own steps leave the map as it is, and it
\* returns (nil, nil) once its frame is written (the send error if the write
\* failed).
C11_NoWaitNoEntry ==
    /\ [](\A i \in DOMAIN calls :
            ~calls[i].wait =>
                /\ calls[i].requestID \notin DOMAIN responseMap
                /\ \A x \in DOMAIN responseMap : responseMap[x] # i
                /\ calls[i].pc \in {"send", "payload", "done"}
                /\ calls[i].chan = <<>>
                /\ calls[i].pc = "done"
                     => \/ /\ calls[i].result = Result("nil", NoMsg)
                           /\ \E n \in DOMAIN pipeOut :
                                pipeOut[n] = Body(calls[i].sidx)
                        \/ calls[i].result.kind = "senderr")
    /\ [][\A i \in DOMAIN calls :
            (~calls[i].wait /\ calls'[i] # calls[i])
               => responseMap' = responseMap]_vars

\* A call that does not wait has returned (nil, nil) while the entry of a
\* waiting call is in the map.
C11_Witness ==
    \E i, j \in DOMAIN calls :
        /\ ~calls[i].wait /\ calls[i].pc = "done"
        /\ calls[i].result = Result("nil", NoMsg)
        /\ calls[j].wait /\ calls[j].requestID \in DOMAIN responseMap
\* C17: a Terminate whose SIGTERM went to a running child sends SIGKILL only
\* after the 5 seconds have passed, returns only after the child has been
\* waited on, and returns what the wait returned.
C17_TerminateReturnsWaitResult ==
    \A t \in DOMAIN terms :
        terms[t].sentTo = "running" =>
            /\ \E n \in DOMAIN signals : signals[n] = "SIGTERM"
            /\ terms[t].killed => terms[t].elapsed = TerminateGrace
            /\ terms[t].pc = "done"
                 => /\ child = "reaped"
                    /\ terms[t].waited # "none"
                    /\ terms[t].ret = terms[t].waited

\* C18: a Terminate called on a child that was already waited on sends no
\* signal, does not wait again, and returns nil.
C18_TerminateNoOp ==
    \A t \in DOMAIN terms :
        (terms[t].atCall = "reaped" /\ terms[t].pc = "done") =>
            /\ terms[t].sentTo = "none"
            /\ terms[t].waited = "none"
            /\ terms[t].ret = "nil"
\* Calls between taking rpp.m and returning.
InProgress(c) == rcalls[c].pc \in {"mode", "write", "event", "read", "term"}

\* C12: a call of Execute, ExecuteWithTimeout or Close is in progress only
\* while it holds rpp.m, so at most one is; only the holder writes to PipeOut
\* or takes anything from PipeIn or the status channels; and a control line is
\* always followed directly by the code of the call that wrote it.
C12_OneSubmissionAtATime ==
    /\ [](\A c \in DOMAIN rcalls : InProgress(c) => rppM = c)
    /\ [](\A n \in DOMAIN rPipeOut :
            rPipeOut[n].control =>
                \/ n = Len(rPipeOut) /\ rppM = rPipeOut[n].call
                \/ n < Len(rPipeOut) /\ rPipeOut[n + 1].call = rPipeOut[n].call
                                     /\ ~rPipeOut[n + 1].control)
    /\ [][(\/ rPipeOut' # rPipeOut
           \/ Len(rPipeIn') < Len(rPipeIn)
           \/ Len(StatusChan') < Len(StatusChan)
           \/ Len(ExceptionChan') < Len(ExceptionChan))
          => /\ rppM # 0
             /\ rcalls'[rppM] # rcalls[rppM]
             /\ \A d \in DOMAIN rcalls : d # rppM => rcalls'[d] = rcalls[d]]_vars

\* A second caller waits for rpp.m while the first, having written its control
\* line and its code, waits for the guest.
C12_Witness ==
    \E c, d \in DOMAIN rcalls :
        /\ rcalls[c].pc = "lock" /\ rcalls[c].kind # "Close"
        /\ rppM = d /\ rcalls[d].pc \in {"event", "read"}
        /\ rPipeOut = <<[call |-> d, control |-> TRUE], [call |-> d, control |-> FALSE]>>
\* Calls of Execute or ExecuteWithTimeout that returned the guest's output.
Returned(c) ==
    /\ rcalls[c].kind # "Close"
    /\ rcalls[c].pc = "done"
    /\ rcalls[c].err \in {"nil", "exception"}

\* C13: a call that returned output took one event, the one the guest wrote
\* for the call's own submission, and its error is the exception of its own
\* code: an exception exactly when that code raised.
C13_OwnEventOwnError ==
    \A c \in DOMAIN rcalls :
        Returned(c) =>
            /\ rcalls[c].event # NoEvent
            /\ rcalls[c].event.sub = rcalls[c].sub
            /\ rcalls[c].err = "exception" <=> rcalls[c].code.ends = "raise"
C15_OutputBeforeSentinel ==
    \A c \in DOMAIN rcalls :
        (rcalls[c].kind = "Execute" /\ Returned(c)) =>
            /\ ~Contains(rcalls[c].output, DELIMITER)
            /\ rcalls[c].output
                 = TrimRight(TextMode(rcalls[c].code.out, rcalls[c].iswin), {LF, CR})

\* An Execute has returned the output of code that printed two bytes of the
\* sentinel's prefix, a line, and an empty line.
C15_Witness ==
    \E c \in DOMAIN rcalls :
        /\ rcalls[c].kind = "Execute" /\ Returned(c) /\ ~rcalls[c].iswin
        /\ rcalls[c].code.out = <<1, 2, LF, 97, LF, LF>>
        /\ rcalls[c].output = <<1, 2, LF, 97>>
\* C16: once Close has been called on a REPL, the child is eventually no
\* longer running, whatever the calls in progress wait for.
C16_CloseTerminatesChild ==
    (\E c \in DOMAIN rcalls : rcalls[c].kind = "Close") ~> (child # "running")
\* C19: the payloads Receive has returned are, in order and byte for byte,
\* the first payloads that were passed to Send.
C19_RoundTrip ==
    /\ Len(received) <= Len(sent)
    /\ \A k \in DOMAIN received : received[k].data = sent[k]
\* Data the method cannot be called with: no array (nil counts unless the
\* method takes no arguments), an array of the wrong length, or one with an
\* element that does not convert to its parameter's type.
BadData(method, data) ==
    \/ data.kind = "map"
    \/ data.kind = "nil" /\ Len(method.params) # 0
    \/ /\ data.kind = "array"
       /\ \/ Len(data.elems) # Len(method.params)
          \/ \E n \in DOMAIN data.elems :
                data.elems[n] = "nil" \/ ~CanConvert(data.elems[n], method.params[n])

\* C20: no handler panics, and a request with data its method cannot be
\* called with ends in an error from the handler, without the method being
\* invoked, and in an error response to the guest.
C20_BadDataIsAnError ==
    /\ ~panicked
    /\ \A k \in DOMAIN svcCalls :
          BadData(svcCalls[k].method, svcCalls[k].data) =>
              /\ svcCalls[k].outcome \in {"none", "error"}
              /\ svcCalls[k].pc = "done" => svcCalls[k].response = "error"
\* C21: once a bound method was invoked and its response sent, the response
\* is an error when the method's last result is a non-nil error, and otherwise
\* a result holding the first value the method returned, whatever the number
\* of results.
C21_ResultIsFirstValue ==
    \A k \in DOMAIN svcCalls :
        LET c == svcCalls[k]
        IN (c.outcome = "invoked" /\ c.pc = "done") =>
              IF Len(c.results) > 0 /\ c.results[Len(c.results)] = ErrValue
              THEN c.response = "error"
              ELSE /\ c.response = "result"
                   /\ Len(c.results) > 0 => c.result = c.results[1]
\* The response of application n has a string under "error".
HasError(n) ==
    "error" \in DOMAIN applied[n].arg /\ applied[n].arg["error"][1] = "string"

\* Call returned the map of application n's response without request_id.
ReturnsRest(n) ==
    /\ applied[n].ret.kind = "map"
    /\ DOMAIN applied[n].ret.m = DOMAIN applied[n].arg \ {"request_id"}
    /\ \A k \in DOMAIN applied[n].ret.m : applied[n].ret.m[k] = applied[n].arg[k]

\* Call returned the value v as its result.
ReturnsValue(n, v) == applied[n].ret.kind = "value" /\ applied[n].ret.v = v

FluentWaits(n) ==
    IF n \in DOMAIN applied
    THEN applied[n].arg > 0 /\ calls[applied[n].ret].pc = "wait"
    ELSE FALSE

\* The n-th fluent call has returned.
FluentReturned(n) ==
    IF n \in DOMAIN applied THEN calls[applied[n].ret].pc = "done" ELSE FALSE

\* C23: a fluent call made with a timeout above zero that waits for its
\* response comes to return (with the response, or with the timeout error
\* once its whole seconds have run out); a call that waits for ever was made
\* with a zero timeout.
C23_FluentTimeout ==
    \A n \in 1..MaxCalls : FluentWaits(n) ~> FluentReturned(n)
\* NewQueueProcess has returned the QueueProcess; the method cache is empty
\* unless discoverMethods succeeded.
Constructed ==
    IF applied = <<>> THEN FALSE
    ELSE /\ applied[1].ret.ret \in {"nil", "error"}
         /\ applied[1].ret.ret = "error" => applied[1].ret.cache = {}

\* C24: whatever the guest replies to __get_methods__, or if it does not
\* reply, nothing panics and NewQueueProcess comes to return the
\* QueueProcess, with an empty method cache when introspection failed.
C24_ConstructionCompletes == [](~panicked) /\ <>Constructed
\* The positions of text in the pieces of a string.
Positions(str, text) == {p \in DOMAIN str : str[p] = text}

\* C25: an exception parsed from JSON has the chain that was sent (kind and
\* message at every level, no cause after the last), and the string ToString
\* makes of a chain holds the kind of every level, a "Caused by:" before each
\* cause and nowhere else.
C25_ChainPreserved ==
    \A n \in DOMAIN applied :
        /\ applied[n].fn = "NewPythonExceptionFromJSON" =>
              /\ Len(applied[n].ret) = Len(applied[n].arg.chain)
              /\ \A l \in DOMAIN applied[n].ret :
                    /\ applied[n].ret[l].exception = applied[n].arg.chain[l].exception
                    /\ applied[n].ret[l].message = applied[n].arg.chain[l].message
        /\ applied[n].fn = "ToString" =>
              /\ \A l \in DOMAIN applied[n].arg :
                    Positions(applied[n].ret, applied[n].arg[l].exception) # {}
              /\ Cardinality(Positions(applied[n].ret, CausedBy)) = Len(applied[n].arg) - 1
              /\ \A p \in Positions(applied[n].ret, CausedBy) :
                    \E l \in DOMAIN applied[n].arg :
                        l > 1 /\ applied[n].ret[p + 1] = applied[n].arg[l].exception

\* A chain of three different levels was parsed and made into a string.
C25_Witness ==
    \E n, k \in DOMAIN applied :
        /\ applied[n].fn = "NewPythonExceptionFromJSON"
        /\ Len(applied[n].arg.chain) = 3
        /\ applied[n].arg.chain[1] # applied[n].arg.chain[2]
        /\ applied[n].arg.chain[2] # applied[n].arg.chain[3]
        /\ applied[k].fn = "ToString"
        /\ applied[k].arg = applied[n].ret
C27_WrongSizeDiscarded ==
    \A n \in DOMAIN bplog :
        (bplog[n].op = "Put" /\ bplog[n].buf.cap # PoolBufSize) =>
            /\ bplog[n].after = bplog[n].before
            /\ \A k \in DOMAIN bplog :
                  (k > n /\ bplog[k].op = "Get") => bplog[k].buf.id # bplog[n].buf.id

\* A buffer of the wrong capacity was put while the pool had room, and Gets
\* have returned since.
C27_Witness ==
    \E n, k \in DOMAIN bplog :
        /\ n < k
        /\ bplog[n].op = "Put" /\ bplog[n].buf.cap # PoolBufSize
        /\ Len(bplog[n].before) < PoolCount
        /\ bplog[k].op = "Get"

\* C28: the pool never holds more buffers than it was created with, and
\* every call of Get and of Put returns.
C28_NeverBlocks ==
    /\ [](Len(pool) <= PoolCount)
    /\ \A g \in Goroutines : (bpc[g] # "idle") ~> (bpc[g] = "idle")

\* Get has allocated on an empty pool and Put has discarded on a full one.
C28_Witness ==
    /\ \E n \in DOMAIN bplog :
          bplog[n].op = "Get" /\ bplog[n].before = <<>> /\ bplog[n].buf.id > PoolCount
    /\ \E n \in DOMAIN bplog :
          /\ bplog[n].op = "Put" /\ bplog[n].buf.cap = PoolBufSize
          /\ Len(bplog[n].before) = PoolCount /\ bplog[n].after = bplog[n].before
\* Receive loop l is inside transport.Receive.
Reading(l) == lpc[l] \in {"hdr", "body"}

\* C29: at most one receive loop is reading from the transport at a time, and
\* no frame has its header and its payload read by different readers.
C29_OneReader ==
    /\ Cardinality({l \in Loops : Reading(l)}) <= 1
    /\ \A k \in DOMAIN fate : fate[k] # "garbled"
\* C30: the response map holds an entry for a request ID only while the
\* SendCommand call with that ID has not returned, and holds one for every
\* call that waits with no response handed to it yet.
C30_EntryIffWaiting ==
    \A i \in DOMAIN calls :
        /\ calls[i].requestID \in DOMAIN responseMap => calls[i].pc # "done"
        /\ (calls[i].pc = "wait" /\ calls[i].chan = <<>>)
              => calls[i].requestID \in DOMAIN responseMap
\* Frame k was decoded and the receive loop is done with it.
Handled(k) == fate[k] \in {"delivered", "dispatched", "discarded", "ignored"}

\* C31: a decoded frame is either delivered to the caller of a host request
\* (its request_id has the prefix req-) or, carrying a command, dispatched as
\* a request of the guest; a frame with a command and a request_id without
\* the prefix req- is dispatched.
C31_ResponseOrRequest ==
    \A k \in DOMAIN fate :
        Handled(k) =>
            /\ fate[k] = "delivered" => gframes[k].request_id[1] = ReqPrefix
            /\ fate[k] = "dispatched" => gframes[k].command # NoCmd
            /\ (/\ gframes[k].command # NoCmd
                /\ gframes[k].request_id # NoID
                /\ gframes[k].request_id[1] # ReqPrefix) => fate[k] = "dispatched"
\* The handler of worker w has panicked.
HandlerPanicked(w) ==
    IF w \in DOMAIN workers THEN workers[w].pc = "panicked" ELSE FALSE

\* The guest has been sent an error response with the request ID of worker w.
ErrorSent(w) ==
    IF w \in DOMAIN workers
      THEN /\ workers[w].sent
           /\ workers[w].resp.body = "error"
           /\ workers[w].resp.request_id = workers[w].requestID
      ELSE FALSE

\* A frame written by the guest after frame k has been dispatched.
LaterDispatched(w) ==
    IF w \in DOMAIN workers
      THEN \A k \in DOMAIN fate : k > workers[w].frame => fate[k] = "dispatched"
      ELSE FALSE

\* C32: when a handler panics on a request of the guest, the guest is sent an
\* error response with that request's ID and the frames that follow are
\* still dispatched.
C32_PanicIsAnErrorResponse ==
    \A w \in 1..MaxRequests :
        HandlerPanicked(w) ~> (ErrorSent(w) /\ LaterDispatched(w))
\* C33: delivering a response never blocks a receive loop: no channel of a
\* call ever holds more than its capacity of one frame, and the channel of a
\* pending call is empty, whatever the callers and the guest do.
C33_DeliveryNeverBlocks ==
    /\ \A l \in Loops : lpc[l] \notin {"sendblocked"}
    /\ \A i \in DOMAIN calls : Len(calls[i].chan) <= ChanCap
    /\ \A id \in DOMAIN responseMap : calls[PendingCall(id)].chan = <<>>

\* A response was delivered and a second frame with the same request ID was
\* discarded, as was the late response to a call that had timed out.
C33_Witness ==
    /\ \E k1, k2 \in DOMAIN fate :
          /\ k1 < k2
          /\ gframes[k1].request_id = gframes[k2].request_id
          /\ fate[k1] = "delivered"
          /\ fate[k2] = "discarded"
    /\ \E i \in DOMAIN calls, k \in DOMAIN fate :
          /\ calls[i].result.kind = "timeout"
          /\ gframes[k].request_id = calls[i].requestID
          /\ fate[k] = "discarded"
\* The host holds none of the pipe ends that belong to the child.
HostClosedChildEnds == \A e \in ChildEnds : "host" \notin fdOpen[e]

\* C34: once the child is launched the host holds none of the child's pipe
\* ends, and once the child has exited the host's reader of the data pipe and
\* the status goroutine reach EOF and end.
C34_ReadersEndAfterChildExit ==
    /\ [](cmdState = "exited" => HostClosedChildEnds)
    /\ (cmdState = "exited") ~> (dataLoop[1] = "eof" /\ spc # "scan")
\* C35: a line of the status pipe that is not JSON is skipped and does not
\* end the status goroutine, so the lines after it are still scanned.
C35_BadLineSkipped ==
    /\ \A n \in DOMAIN slog : Unmarshal(slog[n].text).err => slog[n].did = "skipped"
    /\ spc \in {"scan", "eof", "exit"}

\* Entry e of the scan log is a status event that was forwarded and whose
\* status or message field is "exit".
IsExitEvent(e) ==
    /\ e.did = "status"
    /\ "exit" \in {Unmarshal(e.text).status, Unmarshal(e.text).message}

\* C36: the status goroutine forwards nothing after it has forwarded an exit
\* event, and it ends only at EOF of the status pipe or after such an event.
C36_ForwardsUntilExitOrEOF ==
    /\ \A n, m \in DOMAIN slog :
          (n < m /\ IsExitEvent(slog[n])) => slog[m].did \notin {"status", "exception"}
    /\ spc # "scan" => \/ spc = "eof"
                       \/ slog # <<>> /\ IsExitEvent(slog[Len(slog)])
\* The mode set by the last control line among the first n writes to the
\* guest, combined when there is none.
RECURSIVE ModeWritten(_)
ModeWritten(n) ==
    IF n = 0 THEN TRUE
    ELSE IF rPipeOut[n].control THEN rcalls[rPipeOut[n].call].combined
    ELSE ModeWritten(n - 1)

\* C37: rpp.combinedOutput is the mode of the last control line written to
\* the guest (combined at first); a control line is written exactly when the
\* requested mode differs from the recorded one, directly before the code of
\* the same call; a call whose write failed wrote no code.
C37_ModeIsLastControlLine ==
    /\ combinedOutput = ModeWritten(Len(rPipeOut))
    /\ \A n \in DOMAIN rPipeOut :
          LET c == rPipeOut[n].call IN
          IF rPipeOut[n].control
            THEN /\ rcalls[c].combined # ModeWritten(n - 1)
                 /\ n < Len(rPipeOut) =>
                       (rPipeOut[n + 1].call = c /\ ~rPipeOut[n + 1].control)
                 /\ n = Len(rPipeOut) =>
                       (rppM = c /\ rcalls[c].pc = "write") \/ rcalls[c].err = "write"
            ELSE rcalls[c].combined = ModeWritten(n - 1)
    /\ \A c \in DOMAIN rcalls :
          rcalls[c].err = "write" =>
              \A n \in DOMAIN rPipeOut : rPipeOut[n].call = c => rPipeOut[n].control

\* A call asked for separate output: its control line was written, then its
\* code, and the recorded mode is the new one; a later call asked for combined
\* output, its control line could not be written, and it wrote nothing.
C37_Witness ==
    /\ \E n \in DOMAIN rPipeOut :
          /\ rPipeOut[n].control
          /\ n + 1 \in DOMAIN rPipeOut
          /\ rPipeOut[n + 1] = [call |-> rPipeOut[n].call, control |-> FALSE]
    /\ combinedOutput = FALSE
    /\ \E c \in DOMAIN rcalls :
          /\ rcalls[c].err = "write"
          /\ rcalls[c].combined
          /\ \A n \in DOMAIN rPipeOut : rPipeOut[n].call # c
\* C38: for the same code string Execute and ExecuteWithTimeout write the
\* same bytes to the guest.
C38_SameBytes ==
    \A i, j \in DOMAIN applied :
        (/\ applied[i].fn = "Execute"
         /\ applied[j].fn = "ExecuteWithTimeout"
         /\ applied[i].arg = applied[j].arg) => applied[i].ret = applied[j].ret

\* How many times sub occurs in str.
Occurrences(str, sub) ==
    Cardinality({n \in 1..(Len(str) - Len(sub) + 1) : SubSeq(str, n, n + Len(sub) - 1) = sub})

\* C39: what Execute writes holds no "\r\n" and no two consecutive newlines,
\* nothing of the cutset before the sentinel, and the sentinel once, at the end.
C39_NoEmptyLine ==
    \A i \in DOMAIN applied :
        applied[i].fn = "Execute" =>
            LET written == applied[i].ret
                body == TrimSuffix(written, DELIMITER) IN
            /\ ~Contains(written, <<CR, LF>>)
            /\ ~Contains(written, <<LF, LF>>)
            /\ HasSuffix(written, DELIMITER)
            /\ Occurrences(written, DELIMITER) = 1
            /\ body = TrimRight(body, Whitespace)
\* The Close calls that found the process running and went on to send the
\* exit command and call Terminate.
ActiveCloses == {c \in DOMAIN closes : closes[c].pc = "exit" \/ closes[c].call # 0}

\* C40: over any number of Close calls, one after another or at once, at
\* most one exit command is sent and at most one call goes on to Terminate,
\* which it reaches only after the send of the exit command has returned; a
\* Close that finds the process not running returns at once and changes
\* nothing.
C40_CloseIdempotent ==
    /\ [](/\ Cardinality(ActiveCloses) <= 1
          /\ Cardinality({i \in DOMAIN calls : calls[i].command = "exit"}) <= 1
          /\ \A c \in DOMAIN closes :
                /\ (closes[c].pc = "done" /\ closes[c].call # 0) =>
                      (calls[closes[c].call].command = "exit"
                         /\ calls[closes[c].call].pc = "done")
                /\ c \notin ActiveCloses => closes[c].pc = "done")
    /\ [][(Len(closes') > Len(closes) /\ ~running) =>
            UNCHANGED <<callVars, running, mutex, loopVars, inVars, inEOF, outVars,
                        handlerVars, workerVars, notQueue>>]_vars

\* One Close has written the exit command and terminated the child; a Close
\* called after it began returned without doing anything.
C40_Witness ==
    \E c \in DOMAIN closes :
        /\ closes[c].pc = "done"
        /\ closes[c].call # 0
        /\ calls[closes[c].call].sidx # 0
        /\ \E d \in DOMAIN closes : d > c /\ closes[d].call = 0 /\ closes[d].pc = "done"
====
